---- MODULE Spec2Model ----
(***************************************************************************)
(* net_bench (src/net_bench/net_bench.c): the receiver run_server, lines    *)
(* 81-142, and the generator run_client, lines 144-188.  main runs one of   *)
(* the two in a process, so they share pc, stdout, stderr and exit status.  *)
(*                                                                         *)
(* The receiver is one thread: it prints a banner, creates and binds a UDP *)
(* socket, prints the CSV header, reads the monotonic clock and then loops *)
(* forever around a blocking recvfrom.  Each recvfrom return with n > 0 is *)
(* handled by lines 112-139 in one piece, the periodic report included.    *)
(*                                                                         *)
(* Times are nanoseconds of CLOCK_MONOTONIC, as in the code.  Sequence     *)
(* numbers, counters and times are uint64_t in the code; every value the   *)
(* model reaches is far below 2^64, so no 64-bit wrap is modelled (a       *)
(* max_seq of 2^64-1, whose max_seq + 1 wraps to 0, is outside the model). *)
(* total_latency is a double in the code; all sums reached here are        *)
(* integers below 2^53, which a double holds exactly; the average         *)
(* total_latency / total_pkts is rounded to a double before it is printed. *)
(* Sums can exceed the checker's 32-bit integers, so a sum is held in two  *)
(* limbs [hi, lo], the value being hi * LIMB + lo.                         *)
(*                                                                         *)
(* The generator runs for whole seconds, so its clock readings are held as *)
(* [s, ns] (seconds, nanoseconds below 10^9), the two parts get_time_ns     *)
(* combines: the value is s * 10^9 + ns.                                    *)
(*                                                                         *)
(* main takes -b unchecked.  A ramp to a large -b is entered at the head   *)
(* of its last step, a state the run has come to through the earlier      *)
(* steps, so that the steps whose rate * 1024 * 1024 overflows int are     *)
(* part of the generator's specifications.                                 *)
(*                                                                         *)
(* The repository's two other tools, c2c_latency and disk_bench, are       *)
(* separate programs with their own variables and specifications, further  *)
(* down.                                                                   *)
(***************************************************************************)
EXTENDS Integers, Sequences, FiniteSets, TLC

----------------------------------------------------------------------------
(* Bounds of the model *)

\* number of recvfrom returns with n > 0 that are explored
MaxPkts == 3
\* sequence numbers on the wire are drawn from 0..MaxSeq
MaxSeq == 3
\* run_client: most packets sent in one run
MaxSent == 3
\* run_client: largest -b value
MaxRate == 2
\* run_client: largest -t value, seconds
MaxDuration == 1
\* run_client: the -b value of the long ramp
MaxRateArg == 4096
\* run_client on the mock clock: most packets sent in one step
MaxPaced == 1500

----------------------------------------------------------------------------
(* Program constants *)

\* #define PACKET_SIZE 1400: sizeof(udp_packet_t), the size of the receive buffer
PACKET_SIZE == 1400
\* bytes of packet_header_t.seq_num, the first field of the datagram
SEQ_NUM_BYTES == 8
\* "if (now - last_report_time > 1000000000ULL)"
REPORT_PERIOD_NS == 1000000000
\* "now/1000000000" in the record's first column
NS_PER_SEC == 1000000000
\* "(double)total_bytes * 8"
BITS_PER_BYTE == 8
\* "/ 1000000.0"
MEGA == 1000000
\* main's "return 0"
EXIT_OK == 0
\* EXIT_FAILURE
EXIT_FAILURE == 1
\* the largest int, the type of "rate * 1024 * 1024"
INT_MAX == 2147483647
\* sizeof(packet_header_t): seq_num and timestamp_ns
HEADER_BYTES == 16

----------------------------------------------------------------------------
(* Inputs *)

\* clock readings the environment may produce (non-decreasing along a run)
Instants ==
    {0, REPORT_PERIOD_NS, REPORT_PERIOD_NS + 1, 2 * REPORT_PERIOD_NS + 2}

\* send timestamps carried by a full datagram read at `now`: one stamped 700 ns
\* before the receiver's clock reading, one stamped 500 ns ahead of it
SendStamps(now) ==
    {now + 500} \cup (IF now >= 700 THEN {now - 700} ELSE {})

\* contents of packet.header.timestamp_ns before the first recvfrom: the buffer
\* is an uninitialised local (line 104), so its value is indeterminate
UninitStamps == {0, 2 * REPORT_PERIOD_NS + 1000}

SeqNums == 0..MaxSeq

VARIABLES
    pc,                \* receiver: "start", "socket", "loop"; generator:
                       \* "c_start", "for", "ramp", "done"; both: "exit";
                       \* main without a mode: "main"
    exit_status,       \* -1 while running, else the process's exit status
    out,               \* lines written to stdout, in order
    err,               \* lines written to stderr (perror), in order
    clock,             \* the latest get_time_ns() reading
    packet,            \* packet.header: [seq_num, timestamp_ns]
    total_bytes,
    total_pkts,
    total_drops,
    max_seq,
    total_latency,
    last_report_time,
    last_n,            \* history: return value of the latest recvfrom (-2: none yet)
    nrecv,             \* history: number of recvfrom returns with n > 0
    g_high,            \* history: highest seq_num processed so far
    g_seen,            \* history: set of seq_num values processed so far
    g_ordered,         \* history: processed seq_nums start at 1 and strictly increase
    g_dup,             \* history: some seq_num was processed twice
    g_rising,          \* history: processed seq_nums strictly increase
    cum,               \* history: [bytes, pkts, lat] summed over all processed datagrams
    mark,              \* history: cum as it was after the latest report (pre-datagram sums)
    emitted,           \* history: [bytes, pkts, drops] summed over the records
                       \* written, as handed to printf
    gaps,              \* history: the gaps of all processed datagrams, summed
    max_bandwidth_mbps,   \* global, set by -b
    duration_per_step,    \* global, set by -t
    rate,              \* run_client: the for loop's rate
    seq,               \* run_client: the next sequence number
    start_time,        \* run_client: [s, ns]
    end_time,          \* run_client: [s, ns]
    packet_interval_ns,
    next_send,         \* run_client: [s, ns]
    cnow,              \* run_client: the latest get_time_ns() reading, [s, ns]
    sent,              \* history: [seq_num, rate] of the first MaxSent packets
                       \* handed to sendto, in order
    send_ok,           \* history: whether the latest sendto succeeded
    bytes_per_sec,     \* run_client: what "rate * 1024 * 1024" leaves before
                       \* it is widened to uint64_t, in units of 2^20 bytes
                       \* (every outcome is a multiple of 2^20, and 2^31 is
                       \* beyond the checker's integers)
    mock_clock,        \* whether get_time_ns is a mock clock without jitter
    first_deadline,    \* history: next_send as the step set it first, [s, ns]
    step_sent,         \* history: packets handed to sendto in this step
    waited,            \* history: how the latest loop iteration waited
    b_pc,              \* c2c_latency run_benchmark: position of the main thread
    b_ret,             \* run_benchmark: the value returned
    turn,              \* data->turn as it is in coherent memory
    l_pc,              \* thread_leader: position
    l_i,               \* thread_leader: the for loop's i
    l_buf,             \* thread_leader's core: stores to turn not yet in memory
    l_start,           \* thread_leader: start = rdtsc()
    l_end,             \* thread_leader: end = rdtsc()
    total_cycles,      \* args1.total_cycles
    f_pc,              \* thread_follower: position
    f_i,               \* thread_follower: the for loop's i
    f_buf,             \* thread_follower's core: stores to turn not yet in memory
    c_log,             \* history: the stores to turn in the order they reached
                       \* memory, each with the value it replaced
    start_mark,        \* history: Len(c_log) when the leader read start
    end_mark,          \* history: Len(c_log) when the leader read end
    f_early,           \* history: the follower polled turn before the leader
                       \* had issued its "turn = 0"
    d_pc,              \* disk_bench main: position
    d_status,          \* disk_bench: how the process ended
    config,            \* disk_bench: config_t, the fields the test reads
    st_size,           \* disk_bench: size of the test file on disk, bytes
    file_pos,          \* disk_bench: the file offset of the test's descriptor
    stats,             \* disk_bench: stats_t
    num_blocks,        \* test_rand_read / test_rand_write: num_blocks
    report,            \* print_stats: the values it computed
    faults             \* history: the undefined operations executed so far

prog_vars == <<pc, exit_status, out, err, clock, packet, total_bytes, total_pkts,
               total_drops, max_seq, total_latency, last_report_time>>
hist_vars == <<last_n, nrecv, g_high, g_seen, g_ordered, g_dup, g_rising, cum,
               mark, emitted, gaps>>
cli_vars == <<max_bandwidth_mbps, duration_per_step, rate, seq, start_time,
              end_time, packet_interval_ns, next_send, cnow, sent, send_ok,
              bytes_per_sec, mock_clock, first_deadline, step_sent, waited>>
c2c_vars == <<b_pc, b_ret, turn, l_pc, l_i, l_buf, l_start, l_end, total_cycles,
              f_pc, f_i, f_buf, c_log, start_mark, end_mark, f_early>>
disk_vars == <<d_pc, d_status, config, st_size, file_pos, stats, num_blocks, report,
               faults>>
\* the state of the two other tools of the repository
aux_vars == <<c2c_vars, disk_vars>>
vars == <<prog_vars, hist_vars, cli_vars, aux_vars>>

----------------------------------------------------------------------------
(* Output lines *)

BannerLine == [kind |-> "banner", ts |-> 0, mbps |-> 0, lat |-> 0, drops |-> 0]
HeaderLine == [kind |-> "header", ts |-> 0, mbps |-> 0, lat |-> 0, drops |-> 0]

\* num/den rounded to the nearest integer, ties to even, as printf's %.Nf
\* rounds an exactly representable value
RoundHalfEven(num, den) ==
    LET q == num \div den
        r == num % den
    IN  IF 2 * r > den THEN q + 1
        ELSE IF 2 * r < den THEN q
        ELSE IF q % 2 = 0 THEN q ELSE q + 1

\* the size of a limb of a latency sum
LIMB == 100000000

\* a latency sum of n nanoseconds
Wide(n) == [hi |-> n \div LIMB, lo |-> n % LIMB]

\* total_latency = 0
WideZero == [hi |-> 0, lo |-> 0]

\* a + b
WideAdd(a, b) ==
    [hi |-> a.hi + b.hi + ((a.lo + b.lo) \div LIMB), lo |-> (a.lo + b.lo) % LIMB]

\* a - b, for b <= a
WideSub(a, b) ==
    IF a.lo >= b.lo THEN [hi |-> a.hi - b.hi, lo |-> a.lo - b.lo]
    ELSE [hi |-> a.hi - b.hi - 1, lo |-> a.lo + LIMB - b.lo]

\* the integer part of log2(m), m >= 1, sixteen, four or one bit at a time
RECURSIVE Log2Floor(_)
Log2Floor(m) ==
    IF m < 2 THEN 0
    ELSE IF m >= 65536 THEN 16 + Log2Floor(m \div 65536)
    ELSE IF m >= 16 THEN 4 + Log2Floor(m \div 16)
    ELSE 1 + Log2Floor(m \div 2)

\* DBL_MANT_DIG: the significant bits of a double
DBL_MANT_DIG == 53

\* long division by den of the decimal digits of one limb, the digit at
\* place first, carried on from the quotient and remainder in st
RECURSIVE LimbDiv(_, _, _, _)
LimbDiv(limb, place, st, den) ==
    IF place = 0 THEN st
    ELSE LET cur == st.r * 10 + ((limb \div place) % 10)
         IN  LimbDiv(limb, place \div 10,
                     [q |-> st.q * 10 + (cur \div den), r |-> cur % den], den)

\* the integer part q and the remainder r of a / den: in one step when
\* (a.hi % den) * LIMB + a.lo, which is below den * LIMB, is within 32 bits,
\* digit by digit otherwise
WideDivMod(a, den) ==
    IF den <= INT_MAX \div LIMB
      THEN LET t == (a.hi % den) * LIMB + a.lo
           IN  [q |-> (a.hi \div den) * LIMB + (t \div den), r |-> t % den]
      ELSE LimbDiv(a.lo, LIMB \div 10,
                   LimbDiv(a.hi, LIMB \div 10, [q |-> 0, r |-> 0], den), den)

\* Whether the double nearest to q + r / den is q + 1/2, for r / den other
\* than 1/2.  With k the integer part of log2(q), doubles around q + 1/2
\* are 2^(k - 52) apart, so the quotient is rounded to q + 1/2 when it is
\* less than 2^(k - 53) away from it, that is when |2r - den| * 2^(52 - k)
\* is below den; at equal distance the double with the even significand is
\* taken, which is q + 1/2 unless k = 51.
DoubleIsHalf(q, r, den) ==
    LET d == IF 2 * r > den THEN 2 * r - den ELSE den - 2 * r
        k == Log2Floor(q)
    IN  /\ q >= 1
        /\ d > 0
        /\ k < DBL_MANT_DIG - 1
        /\ DBL_MANT_DIG - 1 - k <= Log2Floor(den \div d)
        /\ ~(k = DBL_MANT_DIG - 2 /\ den = 2 * d)

\* "%.0f" of the double total_latency / total_pkts: the quotient a / den is
\* rounded to a double first, and printf rounds the double to the nearest
\* integer, ties to even.  The two roundings differ from one rounding of
\* the exact quotient when the double is q + 1/2 and the quotient is not.
WideDivRound(a, den) ==
    LET dm == WideDivMod(a, den)
        q  == dm.q
        r  == dm.r
    IN  IF 2 * r = den \/ DoubleIsHalf(q, r, den)
          THEN (IF q % 2 = 0 THEN q ELSE q + 1)
          ELSE IF 2 * r > den THEN q + 1 ELSE q

\* 2^k
RECURSIVE Pow2(_)
Pow2(k) == IF k = 0 THEN 1 ELSE 2 * Pow2(k - 1)

\* Whether the double nearest to m / 200 is above it, for m >= 1 that 25
\* does not divide.  The double has 53 significant bits: with e such that
\* 2^52 <= m * 2^e / 25 < 2^53 it is rounded up when the remainder of
\* m * 2^e by 25 is above half of 25.  2^20 is 1 modulo 25.
DoubleAbove(m) ==
    LET k == Log2Floor(m)
        e == IF 16 * m >= 25 * Pow2(k) THEN 56 - k ELSE 57 - k
        r == ((m % 25) * (Pow2(e % 20) % 25)) % 25
    IN  2 * r > 25

\* the throughput in megabytes: the "* 8" left out
FormatMBytes(bytes) == RoundHalfEven(bytes * 100, MEGA)

\* "%.2f" of (double)total_bytes * 8 / 1000000.0, in hundredths of a Mbps
\* A window of 625 + 1250 * k bytes is half-way between two hundredths; the
\* double that the division leaves is the one nearest to m / 200 (m odd),
\* which is that value itself when 25 divides m and lies above or below it
\* otherwise, and printf rounds the double.
FormatMbps(bytes) ==
    LET per_hundredth == MEGA \div (BITS_PER_BYTE * 100)
        half          == per_hundredth \div 2
        m             == bytes \div half
    IN  IF bytes % per_hundredth = half /\ m % 25 # 0
          THEN bytes \div per_hundredth + (IF DoubleAbove(m) THEN 1 ELSE 0)
          ELSE RoundHalfEven(bytes * BITS_PER_BYTE * 100, MEGA)

\* "%.0f" of (total_pkts > 0) ? (total_latency / total_pkts) : 0
FormatAvgLat(lat, pkts) == IF pkts > 0 THEN WideDivRound(lat, pkts) ELSE 0

\* printf("%lu,%.2f,%.0f,%lu\n", now/1000000000, mbps, avg_lat, total_drops)
RecordLine(now, bytes, pkts, lat, drops) ==
    [kind  |-> "record",
     ts    |-> now \div NS_PER_SEC,
     mbps  |-> FormatMbps(bytes),
     lat   |-> FormatAvgLat(lat, pkts),
     drops |-> drops]

----------------------------------------------------------------------------
(* Per-datagram computations of the receive loop *)

\* the subtraction without the clamp
LatencyUnclamped(now, sent_ts) == now - sent_ts

\* uint64_t lat = (now > sent_ts) ? (now - sent_ts) : 0;
Latency(now, sent_ts) == IF now > sent_ts THEN now - sent_ts ELSE 0

\* the gap test without "max_seq > 0"
GapUnguarded(seq_num, mx) == IF seq_num > mx + 1 THEN seq_num - mx - 1 ELSE 0

\* the gap counted one too large
GapOffByOne(seq_num, mx) == IF mx > 0 /\ seq_num > mx + 1 THEN seq_num - mx ELSE 0

\* if (max_seq > 0 && seq_num > max_seq + 1) total_drops += (seq_num - max_seq - 1);
Gap(seq_num, mx) == IF mx > 0 /\ seq_num > mx + 1 THEN seq_num - mx - 1 ELSE 0

\* max_seq = packet.header.seq_num;
NextMaxSeq(seq_num, mx) == seq_num

\* the report test with >= in place of >
ReportDueAtPeriod(now, last_rt) == now - last_rt >= REPORT_PERIOD_NS

\* a report due after half a period
ReportDueEarly(now, last_rt) == now - last_rt > REPORT_PERIOD_NS \div 2

\* if (now - last_report_time > 1000000000ULL)
ReportDue(now, last_rt) == now - last_rt > REPORT_PERIOD_NS

\* a reset that forgets "total_drops = 0"
ResetKeepsDrops(now, bytes, pkts, drops, lat) ==
    [bytes |-> 0, pkts |-> 0, drops |-> drops, lat |-> WideZero, last_rt |-> now]

\* the packet counter left to run on over a report
ResetKeepsPackets(now, bytes, pkts, drops, lat) ==
    [bytes |-> 0, pkts |-> pkts, drops |-> 0, lat |-> WideZero, last_rt |-> now]

\* the interval counters after a report: lines 134-138
ResetWindow(now, bytes, pkts, drops, lat) ==
    [bytes |-> 0, pkts |-> 0, drops |-> 0, lat |-> WideZero, last_rt |-> now]

\* the record printed from the counters as they were before the datagram
ReportedBefore(before, after) == before

\* lines 122-131: the datagram is added to the counters, then the record is
\* printed from them
ReportedCounters(before, after) == after

\* the loop left when recvfrom returns 0, as if an empty read ended the traffic
AfterRecvBreakOnEmpty(n) == IF n = 0 THEN "exit" ELSE "loop"

\* the loop left when recvfrom fails
AfterRecvBreakOnError(n) == IF n < 0 THEN "exit" ELSE "loop"

\* while(1): whatever recvfrom returned, control goes back to recvfrom
AfterRecv(n) == "loop"

\* the receive loop running although the process took a failure branch, as
\* with a perror that is not followed by exit
RunningAfterExit == pc \in {"loop", "exit"}

\* control is in the receive loop; exit() in the failure branches of lines 86
\* and 93 keeps control from reaching it
Running == pc = "loop"

----------------------------------------------------------------------------
(* The generator's variables while the process runs the receiver *)

T0 == [s |-> 0, ns |-> 0]

NoWait == [kind |-> "none", ns |-> 0]

\* the globals keep their defaults (lines 8-9); run_client's locals do not exist
ClientIdle ==
    /\ max_bandwidth_mbps = 100
    /\ duration_per_step = 5
    /\ rate = 0
    /\ seq = 0
    /\ start_time = T0
    /\ end_time = T0
    /\ packet_interval_ns = 0
    /\ next_send = T0
    /\ cnow = T0
    /\ sent = <<>>
    /\ send_ok = TRUE
    /\ bytes_per_sec = 0
    /\ first_deadline = T0
    /\ step_sent = 0
    /\ waited = NoWait
    /\ mock_clock = FALSE

\* run_benchmark's double, held as the quotient num / den: nothing returned yet
NO_RESULT == [num |-> 0, den |-> 1]

\* c2c_latency is not running: no shared line, no threads
C2CIdle ==
    /\ b_pc = "none"
    /\ b_ret = NO_RESULT
    /\ turn = 0
    /\ l_pc = "off"
    /\ l_i = 0
    /\ l_buf = <<>>
    /\ l_start = 0
    /\ l_end = 0
    /\ total_cycles = 0
    /\ f_pc = "off"
    /\ f_i = 0
    /\ f_buf = <<>>
    /\ c_log = <<>>
    /\ start_mark = 0
    /\ end_mark = 0
    /\ f_early = FALSE

NoReport == [lat_min |-> 0, lat_max |-> 0, lat_p50 |-> 0, lat_p95 |-> 0,
             lat_p99 |-> 0, lat_p999 |-> 0, lat_avg |-> 0, stage |-> "none"]

\* disk_bench is not running
DiskIdle ==
    /\ d_pc = "none"
    /\ d_status = "none"
    /\ config = [mode |-> "none", file_size |-> 0, block_size |-> 0,
                 duration_sec |-> 0]
    /\ st_size = 0
    /\ file_pos = 0
    /\ stats = [latencies |-> <<>>, count |-> 0, total_bytes |-> 0,
                total_ops |-> 0]
    /\ num_blocks = 0
    /\ report = NoReport
    /\ faults = {}

AuxIdle == C2CIdle /\ DiskIdle

----------------------------------------------------------------------------
Init ==
    /\ pc = "start"
    /\ exit_status = -1
    /\ out = <<>>
    /\ err = <<>>
    /\ clock = 0
    /\ packet \in [seq_num : {0}, timestamp_ns : UninitStamps]
    /\ total_bytes = 0
    /\ total_pkts = 0
    /\ total_drops = 0
    /\ max_seq = 0
    /\ total_latency = WideZero
    /\ last_report_time = 0
    /\ last_n = -2
    /\ nrecv = 0
    /\ g_high = 0
    /\ g_seen = {}
    /\ g_ordered = TRUE
    /\ g_dup = FALSE
    /\ g_rising = TRUE
    /\ cum = [bytes |-> 0, pkts |-> 0, lat |-> WideZero]
    /\ mark = [bytes |-> 0, pkts |-> 0, lat |-> WideZero]
    /\ emitted = [bytes |-> 0, pkts |-> 0, drops |-> 0]
    /\ gaps = 0
    /\ ClientIdle
    /\ AuxIdle

counters == <<total_bytes, total_pkts, total_drops, max_seq, total_latency,
              last_report_time>>

\* lines 82-86, socket() succeeds: the banner is printed, the socket exists
SocketOk ==
    /\ pc = "start"
    /\ out' = Append(out, BannerLine)
    /\ pc' = "socket"
    /\ UNCHANGED <<exit_status, err, clock, packet, counters, hist_vars, cli_vars, aux_vars>>

\* lines 82-86, socket() fails: perror and exit(EXIT_FAILURE)
SocketFail ==
    /\ pc = "start"
    /\ out' = Append(out, BannerLine)
    /\ err' = Append(err, "socket creation failed")
    /\ pc' = "exit"
    /\ exit_status' = EXIT_FAILURE
    /\ UNCHANGED <<clock, packet, counters, hist_vars, cli_vars, aux_vars>>

\* lines 93-107, bind() succeeds: the header is printed and the clock is read
BindOk ==
    /\ pc = "socket"
    /\ \E now \in Instants :
        /\ now >= clock
        /\ clock' = now
        /\ last_report_time' = now
    /\ out' = Append(out, HeaderLine)
    /\ pc' = "loop"
    /\ UNCHANGED <<exit_status, err, packet, total_bytes, total_pkts, total_drops,
                   max_seq, total_latency, hist_vars, cli_vars, aux_vars>>

\* line 93, bind() fails: perror and exit(EXIT_FAILURE)
BindFail ==
    /\ pc = "socket"
    /\ err' = Append(err, "bind failed")
    /\ pc' = "exit"
    /\ exit_status' = EXIT_FAILURE
    /\ UNCHANGED <<out, clock, packet, counters, hist_vars, cli_vars, aux_vars>>

\* lines 112-139 for a recvfrom that returned n > 0 and left `hdr` in the
\* packet buffer, with get_time_ns() returning `now`
Process(n, hdr, now) ==
    LET lat   == Latency(now, hdr.timestamp_ns)
        bytes == total_bytes + n
        pkts  == total_pkts + 1
        drops == total_drops + Gap(hdr.seq_num, max_seq)
        lsum  == WideAdd(total_latency, Wide(lat))
        w     == ResetWindow(now, bytes, pkts, drops, lsum)
        shown == ReportedCounters(
                     [bytes |-> total_bytes, pkts |-> total_pkts,
                      lat |-> total_latency, drops |-> total_drops],
                     [bytes |-> bytes, pkts |-> pkts, lat |-> lsum,
                      drops |-> drops])
    IN  /\ packet' = hdr
        /\ clock' = now
        /\ max_seq' = NextMaxSeq(hdr.seq_num, max_seq)
        /\ IF ReportDue(now, last_report_time)
             THEN /\ out' = Append(out, RecordLine(now, shown.bytes, shown.pkts,
                                                   shown.lat, shown.drops))
                  /\ total_bytes' = w.bytes
                  /\ total_pkts' = w.pkts
                  /\ total_drops' = w.drops
                  /\ total_latency' = w.lat
                  /\ last_report_time' = w.last_rt
                  /\ mark' = [bytes |-> cum.bytes + n, pkts |-> cum.pkts + 1,
                              lat |-> WideAdd(cum.lat, Wide(lat))]
                  /\ emitted' = [bytes |-> emitted.bytes + shown.bytes,
                                 pkts  |-> emitted.pkts + shown.pkts,
                                 drops |-> emitted.drops + shown.drops]
             ELSE /\ total_bytes' = bytes
                  /\ total_pkts' = pkts
                  /\ total_drops' = drops
                  /\ total_latency' = lsum
                  /\ UNCHANGED <<out, last_report_time, mark, emitted>>
        /\ last_n' = n
        /\ nrecv' = nrecv + 1
        /\ g_high' = IF hdr.seq_num > g_high THEN hdr.seq_num ELSE g_high
        /\ g_seen' = g_seen \cup {hdr.seq_num}
        /\ g_dup' = (g_dup \/ hdr.seq_num \in g_seen)
        /\ g_rising' = (g_rising /\ (nrecv = 0 \/ hdr.seq_num > g_high))
        /\ g_ordered' = (g_ordered /\ IF nrecv = 0 THEN hdr.seq_num = 1
                                                   ELSE hdr.seq_num > g_high)
        /\ cum' = [bytes |-> cum.bytes + n, pkts |-> cum.pkts + 1,
                   lat |-> WideAdd(cum.lat, Wide(lat))]
        /\ gaps' = gaps + Gap(hdr.seq_num, max_seq)
        /\ pc' = AfterRecv(n)
        /\ UNCHANGED <<exit_status, err, cli_vars, aux_vars>>

\* recvfrom returns a full datagram (n = sizeof(packet)): both header fields
\* come from the wire
RecvFull ==
    /\ Running
    /\ nrecv < MaxPkts
    /\ \E now \in Instants, s \in SeqNums :
        /\ now >= clock
        /\ \E ts \in SendStamps(now) :
              Process(PACKET_SIZE, [seq_num |-> s, timestamp_ns |-> ts], now)

\* recvfrom returns an 8-byte datagram: only seq_num is overwritten, the
\* timestamp_ns the loop reads is what the buffer held before
RecvShort ==
    /\ Running
    /\ nrecv < MaxPkts
    /\ \E now \in Instants, s \in SeqNums :
        /\ now >= clock
        /\ Process(SEQ_NUM_BYTES,
                   [seq_num |-> s, timestamp_ns |-> packet.timestamp_ns], now)

\* recvfrom returns 0 (empty datagram) or -1 (error): "if (n > 0)" skips the
\* body, so nothing is read or written, the clock included
RecvNone ==
    /\ Running
    /\ \E n \in {-1, 0} :
        /\ last_n' = n
        /\ pc' = AfterRecv(n)
    /\ UNCHANGED <<exit_status, out, err, clock, packet, counters,
                   nrecv, g_high, g_seen, g_ordered, g_dup, g_rising, cum, mark,
                   emitted, gaps, cli_vars, aux_vars>>

Next ==
    \/ SocketOk
    \/ SocketFail
    \/ BindOk
    \/ BindFail
    \/ RecvFull
    \/ RecvShort
    \/ RecvNone

Spec == Init /\ [][Next]_vars

\* The receiver's steps that always proceed are its own: socket() and bind()
\* return.  A datagram arriving, or recvfrom failing, is up to the environment;
\* run_server sets no SO_RCVTIMEO, so nothing else ends a recvfrom.
FairSpec ==
    /\ Spec
    /\ WF_vars(SocketOk \/ SocketFail)
    /\ WF_vars(BindOk \/ BindFail)


----------------------------------------------------------------------------
(* Generator: clock arithmetic on [s, ns] readings *)

\* one mebibyte, the unit of "rate * 1024 * 1024"
MEBI == 1024 * 1024
\* "next_send - now > 100000": the distance above which the loop sleeps
SLEEP_ABOVE_NS == 100000
\* a reading this far before the deadline is in spinning distance
NEAR_NS == SLEEP_ABOVE_NS \div 2
\* a reading this far before the deadline is in sleeping distance
FAR_NS == 2 * SLEEP_ABOVE_NS
\* a reading this far after a deadline is more than one packet interval late
LATE_NS == 2 * MEGA

\* t + d nanoseconds, 0 <= d < 10^9
TAddNs(t, d) ==
    [s  |-> t.s + ((t.ns + d) \div NS_PER_SEC),
     ns |-> (t.ns + d) % NS_PER_SEC]

\* t - d nanoseconds, 0 <= d < 10^9, for t of at least d
TSubNs(t, d) ==
    IF t.ns >= d THEN [s |-> t.s, ns |-> t.ns - d]
    ELSE [s |-> t.s - 1, ns |-> t.ns + NS_PER_SEC - d]

\* t + k * 1000000000ULL
TAddSec(t, k) == [s |-> t.s + k, ns |-> t.ns]

\* a < b
TLess(a, b) == a.s < b.s \/ (a.s = b.s /\ a.ns < b.ns)

\* a - b > d for b <= a and d < 10^9
TDiffAbove(a, b, d) ==
    \/ a.s - b.s >= 2
    \/ (a.s - b.s) * NS_PER_SEC + a.ns - b.ns > d

\* line 164
EndTime(start, dur) == TAddSec(start, dur)

\* lines 168-169: the rate in bytes per second, in packets per second, and
\* the nanoseconds between two packets
PacketInterval(r) == NS_PER_SEC \div ((r * MEBI) \div PACKET_SIZE)

\* "rate * 1024 * 1024" is evaluated in int: it is above INT_MAX for these
Overflows(r) == r > INT_MAX \div MEBI

\* the int a wrapping build leaves for an overflowing rate * 1024 * 1024: the
\* product modulo 2^32, taken as a signed value
WrappedProduct(r) ==
    LET half == INT_MAX \div MEBI + 1
        q    == r % (2 * half)
    IN  IF q < half THEN q * MEBI ELSE (q - 2 * half) * MEBI

\* lines 168-169 with the product kept in 64 bits:
\* (r * 2^20) / 1400 = (r * 2^17) / 175
PacketIntervalWide(r) ==
    NS_PER_SEC \div ((r * (MEBI \div BITS_PER_BYTE)) \div (PACKET_SIZE \div BITS_PER_BYTE))

\* lines 168-169 for a rate whose product is in range; bps is in units of
\* 2^20 bytes
StepFigures(r) ==
    [bps |-> r, interval |-> PacketInterval(r), next |-> "ramp"]

\* Lines 168-169 for a rate whose product overflows, which is undefined: a
\* trapping build aborts; a wrapping build goes on with the wrapped int v;
\* an optimising build keeps the product in a 64-bit register and goes on
\* with r * 2^20 itself.
\* A negative v widens to 2^64 + v, a divisor above 10^9, so the interval is
\* 0.  With v = 0 the divisor is 0 and the division is undefined in turn:
\* it raises SIGFPE or yields 0.
OverflowFigures(r) ==
    LET v == WrappedProduct(r)
    IN  {[bps |-> 0, interval |-> 0, next |-> "abort"],
         [bps |-> r, interval |-> PacketIntervalWide(r), next |-> "ramp"]} \cup
        (IF v < 0 THEN {[bps |-> v \div MEBI, interval |-> 0, next |-> "ramp"]}
         ELSE IF v \div PACKET_SIZE = 0
           THEN {[bps |-> v \div MEBI, interval |-> 0, next |-> "sigfpe"],
                 [bps |-> v \div MEBI, interval |-> 0, next |-> "ramp"]}
         ELSE {[bps |-> v \div MEBI,
                interval |-> NS_PER_SEC \div (v \div PACKET_SIZE),
                next |-> "ramp"]})

\* what lines 168-169 can leave in bytes_per_sec and packet_interval_ns, and
\* where control goes
IntervalOutcomes(r) ==
    IF Overflows(r) THEN OverflowFigures(r) ELSE {StepFigures(r)}

\* the deadline restarted from the time of the send
NextDeadlineFromNow(deadline, now, interval) == TAddNs(now, interval)

\* "next_send += packet_interval_ns" (line 179)
NextDeadline(deadline, now, interval) == TAddNs(deadline, interval)

\* a loop that sends in every iteration
SendDueAlways(now, deadline) == TRUE

\* "now >= next_send" (line 175)
SendDue(now, deadline) == ~TLess(now, deadline)

\* usleep(1): one microsecond
USLEEP_NS == 1000

\* the earlier of two readings
TMin(a, b) == IF TLess(b, a) THEN b ELSE a

\* The mock clock stands still between waits and moves over each of them:
\* the sleeps end in spinning distance of the send deadline, the spinning at
\* the deadline, and either at the step's end if that comes first.
MockAfterWait(now) ==
    TMin(end_time,
         IF TDiffAbove(next_send, now, SLEEP_ABOVE_NS)
           THEN TSubNs(next_send, NEAR_NS)
           ELSE next_send)

\* the clock after a waiting iteration that read now
AfterWait(now) == IF mock_clock THEN MockAfterWait(now) ELSE now

\* "uint64_t seq = 1" (line 157)
FIRST_SEQ == 1
\* "int rate = 1" (line 160)
FIRST_RATE == 1

\* a sequence number left out after every packet
NextSeqSkip(sq) == sq + 2

\* "seq++" (line 176)
NextSeq(sq) == sq + 1

\* "get_time_ns() < end_time" (line 173) for the reading t
InStep(t) == TLess(t, end_time)

\* "rate++" (line 160)
NextRate(r) == r + 1

\* a ramp loop left when sendto fails
AfterSendBreakOnError(ok) == IF ok THEN "ramp" ELSE "exit"

\* line 178: sendto's result is not looked at, the while loop goes on
AfterSend(ok) == "ramp"

\* the monotonic clock when the process starts
StartInstants == {T0, [s |-> 7, ns |-> NS_PER_SEC - MEGA]}

\* What a get_time_ns() call can return, given the latest reading: the
\* clock is monotonic, so never less than that.  The readings kept are the
\* ones the loop's tests tell apart: no tick since the latest reading, and,
\* in a step, in sleeping distance of the send deadline, in spinning distance
\* of it, at it and well after it, and at and well after the step's end.
\* The mock clock does not move between two readings.
Readings(latest) ==
    IF mock_clock THEN {latest} ELSE
    LET marks == IF pc = "ramp"
                   THEN {TSubNs(next_send, FAR_NS), TSubNs(next_send, NEAR_NS),
                         next_send, TAddNs(next_send, LATE_NS),
                         end_time, TAddNs(end_time, LATE_NS)}
                   ELSE {TAddNs(latest, LATE_NS)}
    IN  {latest} \cup {t \in marks : TLess(latest, t)}

SenderBanner == [kind |-> "sender_banner"]
RateLine(r) == [kind |-> "rate", rate |-> r]
CompleteLine == [kind |-> "complete"]

\* run_server has not been entered: its counters and the receiver's history
\* are as at the start
ReceiverFresh ==
    /\ clock = 0
    /\ total_bytes = 0
    /\ total_pkts = 0
    /\ total_drops = 0
    /\ max_seq = 0
    /\ total_latency = WideZero
    /\ last_report_time = 0
    /\ last_n = -2
    /\ nrecv = 0
    /\ g_high = 0
    /\ g_seen = {}
    /\ g_ordered = TRUE
    /\ g_dup = FALSE
    /\ g_rising = TRUE
    /\ cum = [bytes |-> 0, pkts |-> 0, lat |-> WideZero]
    /\ mark = [bytes |-> 0, pkts |-> 0, lat |-> WideZero]
    /\ emitted = [bytes |-> 0, pkts |-> 0, drops |-> 0]
    /\ gaps = 0

\* run_server has not been entered and no packet was built: a process that
\* does not run the receiver, before its first send
ReceiverIdle ==
    /\ packet = [seq_num |-> 0, timestamp_ns |-> T0]
    /\ ReceiverFresh

rcv_vars == <<clock, total_bytes, total_pkts, total_drops, max_seq,
              total_latency, last_report_time, hist_vars>>

\* main with -c: -b and -t set the globals, then run_client is entered
GeneratorStart ==
    /\ pc = "c_start"
    /\ exit_status = -1
    /\ out = <<>>
    /\ err = <<>>
    /\ ReceiverIdle
    /\ max_bandwidth_mbps \in (0..MaxRate) \cup {MaxRateArg}
    /\ duration_per_step \in 0..MaxDuration
    /\ rate = 0
    /\ seq = 0
    /\ start_time = T0
    /\ end_time = T0
    /\ packet_interval_ns = 0
    /\ next_send = T0
    /\ cnow \in StartInstants
    /\ sent = <<>>
    /\ send_ok = TRUE
    /\ bytes_per_sec = 0
    /\ first_deadline = T0
    /\ step_sent = 0
    /\ waited = NoWait
    /\ AuxIdle

\* the first rate whose product rate * 1024 * 1024 is above INT_MAX
FIRST_OVERFLOW == INT_MAX \div MEBI + 1

\* The generator at the head of the step of rate r, in a run that read s0 as
\* its first time: the lines of the earlier steps are printed, each of them
\* ended duration_per_step seconds after it began, and the locals of the for
\* loop's body (and the step's history) do not exist between two steps.  sq
\* is the next sequence number, pk the packet as the last send left it, log
\* the first packets of the run.
StepHead(r, s0, sq, pk, log) ==
    /\ pc = "for"
    /\ exit_status = -1
    /\ out = <<SenderBanner>> \o [i \in 1..(r - 1) |-> RateLine(i)]
    /\ err = <<>>
    /\ ReceiverFresh
    /\ packet = pk
    /\ rate = r
    /\ seq = sq
    /\ start_time = T0
    /\ end_time = T0
    /\ packet_interval_ns = 0
    /\ next_send = T0
    /\ cnow = TAddSec(s0, (r - 1) * duration_per_step)
    /\ sent = log
    /\ bytes_per_sec = 0
    /\ first_deadline = T0
    /\ step_sent = 0
    /\ waited = NoWait
    /\ AuxIdle

\* main with -c and a -b of FIRST_OVERFLOW or MaxRateArg, which it takes
\* unchecked, at the head of the last step of the ramp: every earlier step
\* was left on its first reading of the clock, which had come to the step's
\* end, so no packet has been sent
ClientLateInit ==
    /\ max_bandwidth_mbps \in {FIRST_OVERFLOW, MaxRateArg}
    /\ duration_per_step \in 0..MaxDuration
    /\ mock_clock = FALSE
    /\ send_ok = TRUE
    /\ \E s0 \in StartInstants :
         StepHead(max_bandwidth_mbps, s0, FIRST_SEQ,
                  [seq_num |-> 0, timestamp_ns |-> T0], <<>>)

\* the generator on the system's monotonic clock: at its start, for the
\* small values of -b, and late in the ramp for the large ones
ClientInit ==
    \/ /\ GeneratorStart
       /\ max_bandwidth_mbps <= MaxRate
       /\ mock_clock = FALSE
    \/ ClientLateInit

\* the packets a step of rate r and d seconds sends on the mock clock: one
\* at the step's start and one per interval after it, before the step's end
PacedCount(r, d) ==
    LET interval == PacketInterval(r)
    IN  (d * NS_PER_SEC + interval - 1) \div interval

\* the packets the steps of rates lo..hi send on the mock clock
RECURSIVE PacedSum(_, _, _)
PacedSum(lo, hi, d) ==
    IF lo > hi THEN 0
    ELSE IF lo = hi THEN PacedCount(lo, d)
    ELSE LET mid == (lo + hi) \div 2
         IN  PacedSum(lo, mid, d) + PacedSum(mid + 1, hi, d)

\* main with -c -b FIRST_OVERFLOW -t 1 on the mock clock, at the head of the
\* last step: every earlier step has sent its packets, one per interval, and
\* the last of them left at its deadline
PacedLateInit ==
    /\ max_bandwidth_mbps = FIRST_OVERFLOW
    /\ duration_per_step = 1
    /\ mock_clock = TRUE
    /\ send_ok \in BOOLEAN
    /\ \E s0 \in StartInstants :
         LET r    == max_bandwidth_mbps
             n    == PacedSum(FIRST_RATE, r - 1, duration_per_step)
             last == PacedCount(r - 1, duration_per_step)
         IN  StepHead(r, s0, FIRST_SEQ + n,
                      [seq_num |-> FIRST_SEQ + n - 1,
                       timestamp_ns |->
                           TAddNs(TAddSec(s0, r - 2),
                                  (last - 1) * PacketInterval(r - 1))],
                      [i \in 1..MaxSent |->
                           [seq_num |-> FIRST_SEQ + i - 1, rate |-> FIRST_RATE]])

\* the generator on the mock clock, with at least one step to run: at its
\* start, for the small values of -b, and late in the ramp for a large one
PacedInit ==
    \/ /\ GeneratorStart
       /\ max_bandwidth_mbps \in 1..MaxRate
       /\ mock_clock = TRUE
    \/ PacedLateInit

\* lines 145-160, socket() succeeds: the banner is printed, seq and rate are
\* initialised
ClientSocketOk ==
    /\ pc = "c_start"
    /\ out' = Append(out, SenderBanner)
    /\ seq' = FIRST_SEQ
    /\ rate' = FIRST_RATE
    /\ pc' = "for"
    /\ UNCHANGED <<exit_status, err, packet, rcv_vars, aux_vars, max_bandwidth_mbps,
                   duration_per_step, start_time, end_time, packet_interval_ns,
                   next_send, cnow, sent, send_ok, bytes_per_sec, mock_clock,
                   first_deadline, step_sent, waited>>

\* lines 145-149, socket() fails: perror and exit(EXIT_FAILURE)
ClientSocketFail ==
    /\ pc = "c_start"
    /\ out' = Append(out, SenderBanner)
    /\ err' = Append(err, "socket creation failed")
    /\ pc' = "exit"
    /\ exit_status' = EXIT_FAILURE
    /\ UNCHANGED <<packet, rcv_vars, cli_vars, aux_vars>>

\* lines 160-171, "rate <= max_bandwidth_mbps" holds: the step's line is
\* printed, the clock is read for start_time and again for next_send, and
\* the interval is computed in between
StepStart ==
    /\ pc = "for"
    /\ rate <= max_bandwidth_mbps
    /\ out' = Append(out, RateLine(rate))
    /\ \E t1 \in Readings(cnow) : \E t2 \in Readings(t1) :
        /\ start_time' = t1
        /\ end_time' = EndTime(t1, duration_per_step)
        /\ next_send' = t2
        /\ first_deadline' = t2
        /\ cnow' = t2
    /\ \E o \in IntervalOutcomes(rate) :
        /\ bytes_per_sec' = o.bps
        /\ packet_interval_ns' = o.interval
        /\ pc' = o.next
    /\ step_sent' = 0
    /\ waited' = NoWait
    /\ UNCHANGED <<exit_status, err, packet, rcv_vars, aux_vars, max_bandwidth_mbps,
                   duration_per_step, rate, seq, sent, send_ok, mock_clock>>

\* lines 160, 187 and main's return: "rate <= max_bandwidth_mbps" fails
RampDone ==
    /\ pc = "for"
    /\ rate > max_bandwidth_mbps
    /\ out' = Append(out, CompleteLine)
    /\ pc' = "done"
    /\ exit_status' = EXIT_OK
    /\ UNCHANGED <<err, packet, rcv_vars, cli_vars, aux_vars>>

\* line 173 reads a time not before end_time, then "rate++" (line 160)
LoopExit ==
    /\ pc = "ramp"
    /\ \E t1 \in Readings(cnow) :
        /\ ~InStep(t1)
        /\ cnow' = t1
    /\ rate' = NextRate(rate)
    /\ pc' = "for"
    /\ UNCHANGED <<exit_status, out, err, packet, rcv_vars, aux_vars, max_bandwidth_mbps,
                   duration_per_step, seq, start_time, end_time,
                   packet_interval_ns, next_send, sent, send_ok, bytes_per_sec,
                   mock_clock, first_deadline, step_sent, waited>>

\* lines 173-179: the loop test reads t1 before end_time, the body reads now
\* at or after next_send; the packet is stamped and handed to sendto, which
\* succeeds or fails.  Under the free clock a run sends MaxSent packets at
\* most, under the mock clock a step MaxPaced.
Send ==
    /\ pc = "ramp"
    /\ IF mock_clock THEN step_sent < MaxPaced ELSE Len(sent) < MaxSent
    /\ \E t1 \in Readings(cnow) : \E now \in Readings(t1) : \E ok \in BOOLEAN :
        /\ InStep(t1)
        /\ SendDue(now, next_send)
        /\ packet' = [seq_num |-> seq, timestamp_ns |-> now]
        /\ send_ok' = ok
        /\ cnow' = now
        /\ pc' = AfterSend(ok)
        /\ next_send' = NextDeadline(next_send, now, packet_interval_ns)
    /\ sent' = IF Len(sent) < MaxSent
                 THEN Append(sent, [seq_num |-> seq, rate |-> rate])
                 ELSE sent
    /\ seq' = NextSeq(seq)
    /\ step_sent' = step_sent + 1
    /\ waited' = NoWait
    /\ UNCHANGED <<exit_status, out, err, rcv_vars, aux_vars, max_bandwidth_mbps,
                   duration_per_step, rate, start_time, end_time,
                   packet_interval_ns, bytes_per_sec, mock_clock,
                   first_deadline>>

\* lines 173-183: now is before next_send by more than 100000 ns, usleep(1)
WaitSleep ==
    /\ pc = "ramp"
    /\ \E t1 \in Readings(cnow) : \E now \in Readings(t1) :
        /\ InStep(t1)
        /\ TLess(now, next_send)
        /\ TDiffAbove(next_send, now, SLEEP_ABOVE_NS)
        /\ cnow' = AfterWait(now)
    /\ waited' = [kind |-> "sleep", ns |-> USLEEP_NS]
    /\ UNCHANGED <<pc, exit_status, out, err, packet, rcv_vars, aux_vars,
                   max_bandwidth_mbps, duration_per_step, rate, seq, start_time,
                   end_time, packet_interval_ns, next_send, sent, send_ok,
                   bytes_per_sec, mock_clock, first_deadline, step_sent>>

\* lines 173-183: now is before next_send by at most 100000 ns, the loop spins
WaitSpin ==
    /\ pc = "ramp"
    /\ \E t1 \in Readings(cnow) : \E now \in Readings(t1) :
        /\ InStep(t1)
        /\ TLess(now, next_send)
        /\ ~TDiffAbove(next_send, now, SLEEP_ABOVE_NS)
        /\ cnow' = AfterWait(now)
    /\ waited' = [kind |-> "spin", ns |-> 0]
    /\ UNCHANGED <<pc, exit_status, out, err, packet, rcv_vars, aux_vars,
                   max_bandwidth_mbps, duration_per_step, rate, seq, start_time,
                   end_time, packet_interval_ns, next_send, sent, send_ok,
                   bytes_per_sec, mock_clock, first_deadline, step_sent>>

ClientNext ==
    \/ ClientSocketOk
    \/ ClientSocketFail
    \/ StepStart
    \/ RampDone
    \/ LoopExit
    \/ Send
    \/ WaitSleep
    \/ WaitSpin

ClientSpec == ClientInit /\ [][ClientNext]_vars

\* The generator's own steps always proceed: socket() returns, the for loop
\* tests its condition, and, the monotonic clock advancing, the while loop's
\* test comes to read a time not before end_time.
FairClientSpec ==
    /\ ClientSpec
    /\ WF_vars(ClientSocketOk \/ ClientSocketFail)
    /\ WF_vars(StepStart)
    /\ WF_vars(RampDone)
    /\ WF_vars(LoopExit)

\* The generator under a mock clock without jitter: every packet leaves at
\* its deadline.
PacedSpec == PacedInit /\ [][ClientNext]_vars

\* The generator started with -b MaxRateArg -t 0, at the head of any of its
\* steps: with steps of no duration the earlier steps have printed their
\* lines and sent nothing, and the locals of the for loop's body do not
\* exist between two steps.
WideRampInit ==
    /\ pc = "for"
    /\ exit_status = -1
    /\ rate \in 1..MaxRateArg
    /\ out = <<SenderBanner>> \o [i \in 1..(rate - 1) |-> RateLine(i)]
    /\ err = <<>>
    /\ ReceiverIdle
    /\ max_bandwidth_mbps = MaxRateArg
    /\ duration_per_step = 0
    /\ seq = FIRST_SEQ
    /\ start_time = T0
    /\ end_time = T0
    /\ packet_interval_ns = 0
    /\ next_send = T0
    /\ cnow \in StartInstants
    /\ sent = <<>>
    /\ send_ok = TRUE
    /\ bytes_per_sec = 0
    /\ first_deadline = T0
    /\ step_sent = 0
    /\ waited = NoWait
    /\ mock_clock = TRUE
    /\ AuxIdle

\* lines 160-171 applied to the step's rate
WideRampSpec == WideRampInit /\ [][StepStart]_vars

\* main (lines 190-211): the process runs the receiver or the generator
\* main was started without -s and without -c; -b and -t may be given
NoModeInit ==
    /\ pc = "main"
    /\ exit_status = -1
    /\ out = <<>>
    /\ err = <<>>
    /\ ReceiverIdle
    /\ max_bandwidth_mbps \in 0..MaxRate
    /\ duration_per_step \in 0..MaxDuration
    /\ rate = 0
    /\ seq = 0
    /\ start_time = T0
    /\ end_time = T0
    /\ packet_interval_ns = 0
    /\ next_send = T0
    /\ cnow = T0
    /\ sent = <<>>
    /\ send_ok = TRUE
    /\ bytes_per_sec = 0
    /\ first_deadline = T0
    /\ step_sent = 0
    /\ waited = NoWait
    /\ mock_clock = FALSE
    /\ AuxIdle

\* lines 203-207: neither is_server nor server_ip is set, main writes
\* "Client mode requires -c <server_ip>" to stderr and calls exit(1)
NoMode ==
    /\ pc = "main"
    /\ err' = Append(err, "Client mode requires -c <server_ip>")
    /\ exit_status' = EXIT_FAILURE
    /\ pc' = "exit"
    /\ UNCHANGED <<out, clock, packet, counters, hist_vars, cli_vars, aux_vars>>

MainInit == Init \/ ClientInit \/ NoModeInit

MainNext == Next \/ ClientNext \/ NoMode

MainSpec == MainInit /\ [][MainNext]_vars

----------------------------------------------------------------------------
(* Observations used by the properties *)

RECURSIVE SumDrops(_)
\* packets_lost summed over the records of a stdout prefix
SumDrops(lines) ==
    IF lines = <<>> THEN 0
    ELSE (IF Head(lines).kind = "record" THEN Head(lines).drops ELSE 0)
         + SumDrops(Tail(lines))

\* packets_lost over all windows: the emitted records and the open window
LostTotal == SumDrops(out) + total_drops

Records == SelectSeq(out, LAMBDA l : l.kind = "record")

\* this step handled a datagram (recvfrom returned n > 0)
Handled == nrecv' = nrecv + 1

\* this step wrote a window record
Reported == pc = "loop" /\ Len(out') = Len(out) + 1

LastLine(lines) == lines[Len(lines)]

----------------------------------------------------------------------------
(* C1..C10 *)

\* C1 as stated: for every datagram processed, in every receiver state
\* (max_seq = 0 before the first datagram included), packets_lost of the
\* current window grows by seq - max_seq - 1 when seq > max_seq + 1, and by
\* nothing otherwise.
C1_ForwardGapRule ==
    [][Handled =>
         LostTotal' - LostTotal =
            (IF packet'.seq_num > max_seq + 1
               THEN packet'.seq_num - max_seq - 1 ELSE 0)]_vars

\* C1 as amended: for every datagram processed, packets_lost of the current
\* window grows by seq - max_seq - 1 when max_seq > 0 and seq > max_seq + 1,
\* and by nothing otherwise; while max_seq is 0 nothing is added.
C1_GuardedGapRule ==
    [][Handled =>
         LostTotal' - LostTotal =
            (IF max_seq > 0 /\ packet'.seq_num > max_seq + 1
               THEN packet'.seq_num - max_seq - 1 ELSE 0)]_vars

\* the first datagram carried a sequence number above 1 and no loss was counted
C1_Witness ==
    /\ nrecv = 1
    /\ total_pkts = 1
    /\ max_seq >= 2
    /\ LostTotal = 0

\* C2: max_seq never decreases, whatever datagram is received.
C2_MaxSeqMonotone == [][max_seq' >= max_seq]_vars

\* C3: a datagram whose sequence number is at most the highest sequence
\* number seen so far (a duplicate or a reordered datagram) is counted in the
\* window's bytes and packets (the open window's counters grow by n and 1, or
\* the record closing the window is computed from counters grown so) and adds
\* nothing to packets_lost.
C3_OldSeqAddsNoLoss ==
    [][(Handled /\ packet'.seq_num <= g_high) =>
         /\ LostTotal' = LostTotal
         /\ last_n' > 0
         /\ IF Reported
              THEN /\ LastLine(out').mbps = FormatMbps(total_bytes + last_n')
                   /\ LastLine(out').lat =
                        FormatAvgLat(
                            WideAdd(total_latency,
                                    Wide(Latency(clock', packet'.timestamp_ns))),
                            total_pkts + 1)
              ELSE /\ total_bytes' = total_bytes + last_n'
                   /\ total_pkts' = total_pkts + 1]_vars

\* C4: when the datagrams processed so far carry strictly increasing sequence
\* numbers starting at 1, packets_lost summed over all windows (emitted records
\* and the open window) is the number of sequence numbers missing below the
\* highest one received.
C4_OrderedLossExact ==
    (g_ordered /\ nrecv > 0) => LostTotal = g_high - nrecv

C4_Witness ==
    /\ g_ordered
    /\ nrecv >= 2
    /\ g_high > nrecv
    /\ Len(Records) >= 1
    /\ SumDrops(out) >= 1

\* C5: the latency a datagram adds to its window is now - timestamp_ns when
\* now > timestamp_ns and 0 otherwise, never negative: the open window's sum
\* grows by it, or the record closing the window averages a sum grown by it.
C5_LatencyClamp ==
    [][Handled =>
         LET now == clock'
             ts  == packet'.timestamp_ns
             lat == IF now > ts THEN now - ts ELSE 0
         IN  /\ lat >= 0
             /\ IF Reported
                  THEN LastLine(out').lat =
                          FormatAvgLat(WideAdd(total_latency, Wide(lat)),
                                       total_pkts + 1)
                  ELSE total_latency' = WideAdd(total_latency, Wide(lat))]_vars

\* a datagram stamped 500 ns ahead of the receiver's clock was just processed
\* and the window's latency sum is still 0
C5_Witness ==
    /\ nrecv > 0
    /\ last_n > 0
    /\ packet.timestamp_ns = clock + 500
    /\ total_pkts > 0
    /\ total_latency = WideZero

\* C6: right after a record is written the interval counters are all zero and
\* the window starts at the emission time, max_seq keeps the sequence number
\* just processed, and the first datagram of the next window starts its sums
\* from nothing.
C6_WindowReset ==
    [][/\ Reported =>
            /\ total_bytes' = 0
            /\ total_pkts' = 0
            /\ total_drops' = 0
            /\ total_latency' = WideZero
            /\ last_report_time' = clock'
            /\ max_seq' = packet'.seq_num
       /\ (Handled /\ ~Reported /\ Len(Records) > 0 /\ total_pkts = 0) =>
            /\ total_bytes' = last_n'
            /\ total_pkts' = 1
            /\ total_drops' = Gap(packet'.seq_num, max_seq)
            /\ total_latency' = Wide(Latency(clock', packet'.timestamp_ns))]_vars

\* a record reporting loss has just been written: the counters are back at
\* zero while max_seq is kept
C6_Witness ==
    /\ Len(Records) >= 1
    /\ LastLine(out).kind = "record"
    /\ LastLine(out).drops > 0
    /\ total_pkts = 0
    /\ total_drops = 0
    /\ max_seq > 0
    /\ last_report_time = clock

\* C7 as stated: a record is written whenever a datagram is processed more
\* than one period after the window start, and there is one record per elapsed
\* period, so no record adds a datagram to a window that already holds traffic
\* and started two or more periods before.
C7_OneRecordPerPeriod ==
    [][/\ (Handled /\ clock' - last_report_time > REPORT_PERIOD_NS) => Reported
       /\ (Reported /\ total_pkts > 0) =>
            clock' - last_report_time < 2 * REPORT_PERIOD_NS]_vars

\* C7 as amended: a record is written exactly when a datagram is processed at
\* a clock reading more than one period after the window start, one record
\* for that datagram; no other step of the loop writes a record (so a window
\* spans as long as the traffic pauses).
C7_ReportExactlyWhenDue ==
    [][/\ (Handled /\ clock' - last_report_time > REPORT_PERIOD_NS) =>
            /\ Reported
            /\ LastLine(out').kind = "record"
            /\ SubSeq(out', 1, Len(out)) = out
       /\ (pc = "loop" /\ ~(Handled /\ clock' - last_report_time > REPORT_PERIOD_NS))
            => out' = out]_vars

\* one record has just been written, by the second of the two datagrams it
\* aggregates: the first one, processed within a period of the start, wrote none
C7_Witness ==
    /\ Len(Records) = 1
    /\ LastLine(out).kind = "record"
    /\ mark.pkts = 2
    /\ total_pkts = 0
    /\ last_report_time = clock

\* C8: every record's throughput is 8 * (bytes of the datagrams processed since
\* the previous record) / 1,000,000 printed to 2 decimals, and its latency is
\* (their latency sum) / (their number) printed to 0 decimals, 0 for none.
C8_DerivedFields ==
    [][Reported =>
         LET r     == LastLine(out')
             bytes == cum'.bytes - mark.bytes
             pkts  == cum'.pkts - mark.pkts
             lsum  == WideSub(cum'.lat, mark.lat)
         IN  /\ r.mbps = RoundHalfEven(bytes * 8 * 100, 1000000)
             /\ r.lat = (IF pkts > 0 THEN WideDivRound(lsum, pkts) ELSE 0)]_vars

\* a second record has been written, with throughput and latency above zero
C8_Witness ==
    /\ Len(Records) >= 2
    /\ LastLine(out).kind = "record"
    /\ LastLine(out).mbps > 0
    /\ LastLine(out).lat > 0
    /\ mark.bytes > 0

\* C9: the first line on stdout is the four-column header.
C9_HeaderFirst == Len(out) >= 1 => out[1].kind = "header"

\* C10: a receiver in its loop that has received no datagram eventually
\* terminates (or a datagram arrives after all).
C10_StartupTimeoutTerminates ==
    (pc = "loop" /\ nrecv = 0) ~> (pc = "exit" \/ nrecv > 0)

----------------------------------------------------------------------------
(* Receiver session *)

\* The session state of a receiver run, read off the program: before the first
\* datagram is processed it awaits traffic, after it it is active, and a
\* process that called exit is terminated.
Session ==
    IF pc = "exit" THEN "Terminated"
    ELSE IF nrecv = 0 THEN "AwaitingTraffic"
    ELSE "Active"

\* C11 as stated: a receiver that has processed k >= 1 datagrams and gets no
\* further one eventually terminates (the idle timeout ends the run), for
\* every k the run can continue after.
C11_IdleTimeoutTerminates ==
    \A k \in 1..(MaxPkts - 1) :
        (pc = "loop" /\ nrecv = k) ~> (pc = "exit" \/ nrecv > k)

\* C12: the receiver never terminates early.  No step taken in the receive
\* loop leaves it, whatever recvfrom returned and however long ago the last
\* datagram came, so in particular none does within a timeout.
C12_NoPrematureTermination ==
    [][pc = "loop" => (pc' = "loop" /\ exit_status' = -1)]_vars

\* an active receiver has just had an empty or failed recvfrom and is still
\* in its loop
C12_Witness ==
    /\ pc = "loop"
    /\ nrecv > 0
    /\ last_n <= 0
    /\ exit_status = -1

\* C13: the session only moves forward.  The first datagram processed makes an
\* awaiting session active, an active session never awaits again, and a
\* terminated session stays terminated, processes no datagram and writes no
\* line.
C13_SessionForwardOnly ==
    [][/\ (Session = "AwaitingTraffic" /\ Handled) => Session' = "Active"
       /\ Session = "Active" => Session' \in {"Active", "Terminated"}
       /\ Session = "Terminated" =>
            /\ Session' = "Terminated"
            /\ nrecv' = nrecv
            /\ out' = out
            /\ UNCHANGED counters]_vars

\* the session is active and has stayed so over a second datagram
C13_Witness ==
    /\ Session = "Active"
    /\ nrecv >= 2
    /\ last_n > 0

\* C14 as stated: a datagram shorter than the header changes no counter and
\* not the highest sequence number.
C14_UndersizedDropped ==
    [][(Handled /\ last_n' < HEADER_BYTES) =>
          UNCHANGED <<total_bytes, total_pkts, total_drops, total_latency,
                      max_seq>>]_vars

----------------------------------------------------------------------------
(* Failures, in either role *)

\* the step is a recvfrom that failed
FailedRecv == pc = "loop" /\ nrecv' = nrecv /\ last_n' = -1

\* the step handed a packet to sendto
Sent == step_sent' = step_sent + 1

\* stdout holds nothing but the start-up banner of either role
OnlyBanner(lines) ==
    \A i \in 1..Len(lines) : lines[i].kind \in {"banner", "sender_banner"}

\* C15: a socket() or bind() failure ends the process at once with a status
\* other than 0 (as does main when it is given neither -s nor -c).  The failure is met before the loops: stdout then holds no
\* header, record or rate line, no packet was sent and no datagram processed.
\* Nothing is retried: an exited process takes no further step.
C15_SetupFailureFatal ==
    [][/\ err' # err =>
            /\ pc \in {"main", "start", "socket", "c_start"}
            /\ pc' = "exit"
            /\ exit_status' = EXIT_FAILURE
            /\ exit_status' # EXIT_OK
            /\ OnlyBanner(out')
            /\ sent' = <<>>
            /\ nrecv' = 0
       /\ pc # "exit"]_vars

\* the receiver has exited on a failed bind
C15_Witness ==
    /\ pc = "exit"
    /\ exit_status = EXIT_FAILURE
    /\ err = <<"bind failed">>
    /\ OnlyBanner(out)

\* C16: a failed recvfrom leaves the receiver in its loop with every counter
\* and max_seq as they were, and a failed sendto leaves the generator in its
\* ramp loop; neither ends the process.
C16_FailedCallContinues ==
    [][/\ FailedRecv =>
            /\ pc' = "loop"
            /\ exit_status' = -1
            /\ UNCHANGED counters
       /\ (Sent /\ ~send_ok') =>
            /\ pc' = "ramp"
            /\ exit_status' = -1]_vars

\* the generator's second sendto has just failed and it is still in its loop
C16_Witness ==
    /\ pc = "ramp"
    /\ Len(sent) = 2
    /\ ~send_ok

\* C17 as stated: a failed recvfrom or sendto writes a line, to stdout or
\* stderr.
C17_FailedCallReported ==
    [][(FailedRecv \/ (Sent /\ ~send_ok')) => (err' # err \/ out' # out)]_vars

----------------------------------------------------------------------------
(* Generator *)

\* the "Testing Rate" lines of stdout
RateLines == SelectSeq(out, LAMBDA l : l.kind = "rate")

\* C18: the packets handed to sendto carry 1, 2, 3, ... in send order, over
\* all the steps of the run.
C18_SequenceNumbers ==
    \A i \in 1..Len(sent) :
        /\ i = 1 => sent[i].seq_num = 1
        /\ i > 1 => sent[i].seq_num = sent[i - 1].seq_num + 1

\* three packets were sent, the first and the third in different steps
C18_Witness ==
    /\ Len(sent) >= 3
    /\ sent[1].rate # sent[3].rate

\* C19: the steps run for rates 1, 2, ..., max_bandwidth_mbps, each once and
\* in this order (the i-th rate line says i, every packet goes out at the
\* rate of the latest line, and at completion there are max lines).  A step
\* starts at a clock reading, ends duration_per_step seconds after it: the
\* loop body runs only when the latest reading was before end_time, and the
\* loop is left on the first reading not before it; the next step, or the
\* completion, follows directly.
C19_RampSteps ==
    [][/\ \A i \in 1..Len(RateLines') : RateLines'[i].rate = i
       /\ pc' = "ramp" =>
            /\ rate' = Len(RateLines')
            /\ rate' <= max_bandwidth_mbps
            /\ end_time'.s = start_time'.s + duration_per_step
            /\ end_time'.ns = start_time'.ns
       /\ (pc = "for" /\ pc' = "ramp") =>
            /\ Len(RateLines') = Len(RateLines) + 1
            /\ ~TLess(start_time', cnow)
       /\ Sent => sent'[Len(sent')].rate = Len(RateLines)
       /\ (pc = "ramp" /\ pc' = "ramp") => TLess(cnow, end_time)
       /\ (pc = "ramp" /\ pc' # "ramp") =>
            /\ ~TLess(cnow', end_time)
            /\ pc' = "for"
            /\ rate' = rate + 1
       /\ pc = "for" => pc' \in {"ramp", "done"}
       /\ pc' = "done" => Len(RateLines') = max_bandwidth_mbps]_vars

\* C20: a generator whose socket was created finishes: whatever the maximum
\* rate and the step duration, it comes to print its completion line and
\* return, having waited for nothing but the clock.
C20_GeneratorTerminates ==
    (pc = "for") ~> (pc = "done" /\ LastLine(out).kind = "complete"
                                  /\ exit_status = EXIT_OK)

----------------------------------------------------------------------------
(* Generator pacing *)

\* the step has just ended
StepEnded == pc = "ramp" /\ pc' = "for"

\* the process is killed while it computes the step's interval
StepKilled == pc = "for" /\ pc' \in {"abort", "sigfpe"}

\* C21: under the mock clock, the number n of packets sent in a step of rate
\* R and duration D, when the step is over, is within 2% of
\* R * 1024 * 1024 * D / 1400, that is
\* 100 * |n * 1400 - R * 1024 * 1024 * D| <= 2 * R * 1024 * 1024 * D; here
\* with both sides divided by 8 * 100.  A step in which the process is
\* killed has sent the packets sent until then.
C21_PacingAccuracy ==
    [][(mock_clock /\ (StepEnded \/ StepKilled)) =>
         LET ideal == rate * ((1024 * 1024) \div 8) * duration_per_step
             got   == step_sent' * (1400 \div 8)
             diff  == IF got >= ideal THEN got - ideal ELSE ideal - got
         IN  diff <= ideal \div 50]_vars

\* C22: in a step, after k packets the send deadline is the step's first
\* deadline plus k intervals: each send moves it on by one interval from
\* where it was, not from the time of the send, however late that was.
C22_DriftFreeDeadline ==
    [][/\ pc' = "ramp" =>
            next_send' = TAddNs(first_deadline',
                                step_sent' * packet_interval_ns')
       /\ Sent => next_send' = TAddNs(next_send, packet_interval_ns)]_vars

\* two packets went out late: the clock is past the deadline of the third
C22_Witness ==
    /\ pc = "ramp"
    /\ step_sent = 2
    /\ TLess(next_send, cnow)
    /\ packet.timestamp_ns = cnow

\* C23: a packet is sent only on a reading at or after the deadline, and is
\* stamped with that reading and the next sequence number.  So the k-th
\* packet of a step leaves no earlier than k - 1 intervals after the first
\* deadline: by any reading t, at most (t - first deadline) / interval + 1
\* packets of the step are out.
C23_NeverEarly ==
    [][/\ Sent =>
            /\ ~TLess(cnow', next_send)
            /\ packet'.timestamp_ns = cnow'
            /\ packet'.seq_num = seq
       /\ (pc' = "ramp" /\ step_sent' >= 1) =>
            ~TLess(cnow', TAddNs(first_deadline',
                                 (step_sent' - 1) * packet_interval_ns'))]_vars

\* the second packet of a step has left exactly at its deadline
C23_Witness ==
    /\ pc = "ramp"
    /\ step_sent = 2
    /\ cnow = TAddNs(first_deadline, packet_interval_ns)
    /\ packet.timestamp_ns = cnow

\* C24: in the step of rate r the interval is
\* 1000000000 / ((r * 1024 * 1024) / 1400) in integer division (the inner
\* quotient is written (r * 131072) / 175, the same number); it is set when
\* the step starts and no iteration of the step changes it.
C24_IntervalPerStep ==
    [][/\ pc' = "ramp" =>
            packet_interval_ns' =
                1000000000 \div ((rate' * 131072) \div 175)
       /\ (pc = "ramp" /\ pc' = "ramp") =>
            packet_interval_ns' = packet_interval_ns]_vars

\* C25 as stated: whatever the maximum rate, no step's rate * 1024 * 1024
\* overflows, no step divides by zero, and every step runs with an interval
\* above 0.
C25_IntervalComputationSafe ==
    /\ pc \notin {"abort", "sigfpe"}
    /\ pc = "ramp" =>
        /\ ~Overflows(rate)
        /\ bytes_per_sec # 0
        /\ packet_interval_ns # 0

\* the step is an iteration of the while loop that did not send
Waited == pc = "ramp" /\ step_sent' = step_sent /\ waited' # NoWait

\* a - b in nanoseconds, for readings less than two seconds apart
Remaining(a, b) == (a.s - b.s) * NS_PER_SEC + a.ns - b.ns

\* C26 as stated: an iteration that reads now before the deadline blocks for
\* half of the remaining time if more than 100 microseconds remain, yields
\* if between 1 and 100 microseconds remain, and spins otherwise.
C26_AdaptiveWait ==
    [][Waited =>
         LET rem == Remaining(next_send, cnow')
         IN  /\ rem > 100000 =>
                  waited' = [kind |-> "sleep", ns |-> rem \div 2]
             /\ (1000 < rem /\ rem <= 100000) => waited'.kind = "yield"
             /\ rem <= 1000 => waited'.kind = "spin"]_vars

----------------------------------------------------------------------------
(* Receiver windows *)

\* C27 as stated: a receive call returns within a bound also when no
\* datagram arrives, so a receiver that has entered its loop and waits in
\* its first recvfrom gets control back.
C27_ReceiveReturns ==
    (pc = "loop" /\ last_n = -2) ~> (last_n # -2)

\* C28: a line is written in the loop only by a step that processes a
\* datagram, and it is a record made from the counters with that datagram
\* added: its throughput is from the window's bytes plus the datagram's, its
\* latency the window's sum plus the datagram's over the window's count plus
\* one (so over at least one packet), its loss the window's plus the
\* datagram's gap.  A step that processes nothing writes nothing.
C28_RecordIncludesTrigger ==
    [][/\ (pc = "loop" /\ out' # out) =>
            /\ Handled
            /\ out' = Append(out, LastLine(out'))
            /\ LET r == LastLine(out')
               IN  /\ r.kind = "record"
                   /\ r.mbps = RoundHalfEven(
                                   (total_bytes + last_n') * 8 * 100, 1000000)
                   /\ r.lat = WideDivRound(
                                  WideAdd(total_latency,
                                          WideSub(cum'.lat, cum.lat)),
                                  total_pkts + 1)
                   /\ r.drops = total_drops + Gap(packet'.seq_num, max_seq)
       /\ (pc = "loop" /\ ~Handled) => out' = out]_vars

\* the first datagram of the run came more than a period after the start and
\* is alone in the record it triggered
C28_Witness ==
    /\ nrecv = 1
    /\ Len(Records) = 1
    /\ LastLine(out).kind = "record"
    /\ LastLine(out).mbps > 0
    /\ mark.pkts = 1

\* C29: at every point of a run, the bytes, packets and losses of the
\* records written plus those of the window still open are the bytes and the
\* number of all datagrams processed and the sum of their gaps; the losses
\* the records show add up to the same.
C29_WindowConservation ==
    /\ emitted.bytes + total_bytes = cum.bytes
    /\ emitted.pkts + total_pkts = cum.pkts
    /\ emitted.drops + total_drops = gaps
    /\ SumDrops(out) = emitted.drops

\* a record of two datagrams and one loss has been written, and the window
\* open since holds a third datagram
C29_Witness ==
    /\ Len(Records) = 1
    /\ emitted.pkts = 2
    /\ emitted.drops = 1
    /\ total_pkts = 1
    /\ total_bytes > 0

\* C30: a record is written more than 1000000000 ns after the window start,
\* which is the time of the previous record or, before the first record,
\* the time read when the receiver started: the window start is set to the
\* record's time by a report, is left alone by every other step of the loop,
\* and never decreases.
C30_RecordSpacing ==
    [][/\ Reported =>
            /\ clock' - last_report_time > 1000000000
            /\ last_report_time' = clock'
       /\ (pc = "loop" /\ ~Reported) => last_report_time' = last_report_time
       /\ last_report_time' >= last_report_time]_vars

\* two records have been written, the second one period and 1 ns after the
\* first
C30_Witness ==
    /\ Len(Records) = 2
    /\ LastLine(out).kind = "record"
    /\ last_report_time = clock
    /\ Records[2].ts > Records[1].ts


----------------------------------------------------------------------------
(***************************************************************************)
(* c2c_latency (src/c2c_latency/c2c_latency.c): run_benchmark, lines       *)
(* 142-163, with thread_leader (105-127) and thread_follower (129-140).    *)
(*                                                                         *)
(* data->turn is a volatile uint64_t that both threads read and write      *)
(* without atomics or fences.  The tool reads rdtsc, so it is an x86       *)
(* build: an aligned 64-bit load or store is one instruction, and each     *)
(* core's stores pass through its FIFO store buffer before they reach      *)
(* coherent memory, while its own loads see its newest buffered store.     *)
(* l_buf and f_buf are these buffers; a Drain step moves the oldest store  *)
(* to memory at any moment.                                                *)
(*                                                                         *)
(* ITERATIONS is 100000 in the source (line 16) and is scaled down here.   *)
(* pthread_create and pthread_join are taken to succeed (the code ignores  *)
(* their results).                                                         *)
(***************************************************************************)

\* number of round trips explored
MaxIter == 3
\* #define ITERATIONS 100000, scaled down to the bound
ITERATIONS == MaxIter
\* rdtsc readings are drawn from 0..MaxTsc
MaxTsc == 2

TscReadings == 0..MaxTsc

\* the value run_benchmark returns when aligned_alloc fails (line 145): -1
ALLOC_FAILED == [num |-> -1, den |-> 1]

\* what a load of data->turn returns on a core whose pending stores are buf
Visible(buf) == IF buf = <<>> THEN turn ELSE buf[Len(buf)].val

\* the leader never leaves its wait
LeaderSpinsForever(t) == TRUE

\* while (data->turn == 1);
LeaderSpins(t) == t = 1

\* the follower does not wait for the signal
FollowerSpinsNever(t) == FALSE

\* while (data->turn == 0);
FollowerSpins(t) == t = 0

\* data->turn = 1;  (line 121)
LEADER_SIGNAL == 1
\* data->turn = 0;  (lines 111 and 137)
TURN_CLEAR == 0

\* run_benchmark is entered: nothing is allocated, no thread exists
C2CInit ==
    /\ pc = "none"
    /\ exit_status = -1
    /\ out = <<>>
    /\ err = <<>>
    /\ ReceiverIdle
    /\ ClientIdle
    /\ DiskIdle
    /\ b_pc = "alloc"
    /\ b_ret = NO_RESULT
    /\ turn = 0
    /\ l_pc = "off"
    /\ l_i = 0
    /\ l_buf = <<>>
    /\ l_start = 0
    /\ l_end = 0
    /\ total_cycles = 0
    /\ f_pc = "off"
    /\ f_i = 0
    /\ f_buf = <<>>
    /\ c_log = <<>>
    /\ start_mark = 0
    /\ end_mark = 0
    /\ f_early = FALSE

net_vars == <<prog_vars, hist_vars, cli_vars>>

\* lines 144-146: aligned_alloc succeeds and memset clears the line
AllocOk ==
    /\ b_pc = "alloc"
    /\ turn' = 0
    /\ b_pc' = "create_follower"
    /\ UNCHANGED <<b_ret, l_pc, l_i, l_buf, l_start, l_end, total_cycles, f_pc,
                   f_i, f_buf, c_log, start_mark, end_mark, f_early,
                   net_vars, disk_vars>>

\* line 145: aligned_alloc fails, run_benchmark returns -1
AllocFail ==
    /\ b_pc = "alloc"
    /\ b_ret' = ALLOC_FAILED
    /\ b_pc' = "returned"
    /\ UNCHANGED <<turn, l_pc, l_i, l_buf, l_start, l_end, total_cycles, f_pc,
                   f_i, f_buf, c_log, start_mark, end_mark, f_early,
                   net_vars, disk_vars>>

\* line 151: pthread_create(&t2, NULL, thread_follower, &args2)
CreateFollower ==
    /\ b_pc = "create_follower"
    /\ f_pc' = "wait"
    /\ f_i' = 0
    /\ b_pc' = "create_leader"
    /\ UNCHANGED <<b_ret, turn, l_pc, l_i, l_buf, l_start, l_end, total_cycles,
                   f_buf, c_log, start_mark, end_mark, f_early,
                   net_vars, disk_vars>>

\* line 152: pthread_create(&t1, NULL, thread_leader, &args1)
CreateLeader ==
    /\ b_pc = "create_leader"
    /\ l_pc' = "sync"
    /\ b_pc' = "join_leader"
    /\ UNCHANGED <<b_ret, turn, l_i, l_buf, l_start, l_end, total_cycles, f_pc,
                   f_i, f_buf, c_log, start_mark, end_mark, f_early,
                   net_vars, disk_vars>>

\* line 154: pthread_join(t1) returns once thread_leader has returned
JoinLeader ==
    /\ b_pc = "join_leader"
    /\ l_pc = "done"
    /\ b_pc' = "join_follower"
    /\ UNCHANGED <<b_ret, turn, l_pc, l_i, l_buf, l_start, l_end, total_cycles,
                   f_pc, f_i, f_buf, c_log, start_mark, end_mark, f_early,
                   net_vars, disk_vars>>

\* lines 155-162: pthread_join(t2) returns once thread_follower has
\* returned, the line is freed and the quotient
\* total_cycles / (2.0 * ITERATIONS) is returned, held here as [num, den]
JoinFollower ==
    /\ b_pc = "join_follower"
    /\ f_pc = "done"
    /\ b_ret' = [num |-> total_cycles, den |-> 2 * ITERATIONS]
    /\ b_pc' = "returned"
    /\ UNCHANGED <<turn, l_pc, l_i, l_buf, l_start, l_end, total_cycles,
                   f_pc, f_i, f_buf, c_log, start_mark, end_mark, f_early,
                   net_vars, disk_vars>>

\* line 111: data->turn = 0
LeaderSync ==
    /\ l_pc = "sync"
    /\ l_buf' = Append(l_buf, [by |-> "sync", val |-> TURN_CLEAR])
    /\ l_pc' = "sleep"
    /\ UNCHANGED <<b_pc, b_ret, turn, l_i, l_start, l_end, total_cycles, f_pc,
                   f_i, f_buf, c_log, start_mark, end_mark, f_early,
                   net_vars, disk_vars>>

\* lines 116-120: nanosleep returns, start = rdtsc(), the for loop sets i = 0
LeaderStart ==
    /\ l_pc = "sleep"
    /\ l_start' \in TscReadings
    /\ start_mark' = Len(c_log)
    /\ l_i' = 0
    /\ l_pc' = IF 0 < ITERATIONS THEN "signal" ELSE "end"
    /\ UNCHANGED <<b_pc, b_ret, turn, l_buf, l_end, total_cycles, f_pc,
                   f_i, f_buf, c_log, end_mark, f_early, net_vars, disk_vars>>

\* line 121: data->turn = 1
LeaderSignal ==
    /\ l_pc = "signal"
    /\ l_buf' = Append(l_buf, [by |-> "leader", val |-> LEADER_SIGNAL])
    /\ l_pc' = "wait"
    /\ UNCHANGED <<b_pc, b_ret, turn, l_i, l_start, l_end, total_cycles, f_pc,
                   f_i, f_buf, c_log, start_mark, end_mark, f_early,
                   net_vars, disk_vars>>

\* line 122, one test of "while (data->turn == 1);", and on leaving the
\* loop line 120's i++ and i < ITERATIONS
LeaderWait ==
    /\ l_pc = "wait"
    /\ IF LeaderSpins(Visible(l_buf))
         THEN UNCHANGED <<l_i, l_pc>>
         ELSE /\ l_i' = l_i + 1
              /\ l_pc' = IF l_i + 1 < ITERATIONS THEN "signal" ELSE "end"
    /\ UNCHANGED <<b_pc, b_ret, turn, l_buf, l_start, l_end, total_cycles, f_pc,
                   f_i, f_buf, c_log, start_mark, end_mark, f_early,
                   net_vars, disk_vars>>

\* lines 124-127: end = rdtsc(), total_cycles = end - start, return
LeaderEnd ==
    /\ l_pc = "end"
    /\ l_buf = <<>>
    /\ \E t \in TscReadings :
         /\ t >= l_start
         /\ l_end' = t
         /\ total_cycles' = t - l_start
    /\ end_mark' = Len(c_log)
    /\ l_pc' = "done"
    /\ UNCHANGED <<b_pc, b_ret, turn, l_i, l_buf, l_start, f_pc,
                   f_i, f_buf, c_log, start_mark, f_early, net_vars, disk_vars>>

\* line 136, one test of "while (data->turn == 0);"
FollowerWait ==
    /\ f_pc = "wait"
    /\ IF FollowerSpins(Visible(f_buf))
         THEN /\ f_early' = (f_early \/ l_pc \in {"off", "sync"})
              /\ UNCHANGED f_pc
         ELSE /\ f_pc' = "signal"
              /\ UNCHANGED f_early
    /\ UNCHANGED <<b_pc, b_ret, turn, l_pc, l_i, l_buf, l_start, l_end,
                   total_cycles, f_i, f_buf, c_log, start_mark, end_mark,
                   net_vars, disk_vars>>

\* line 137, data->turn = 0, then line 135's i++ and i < ITERATIONS
FollowerSignal ==
    /\ f_pc = "signal"
    /\ f_buf' = Append(f_buf, [by |-> "follower", val |-> TURN_CLEAR])
    /\ f_i' = f_i + 1
    /\ f_pc' = IF f_i + 1 < ITERATIONS THEN "wait" ELSE "return"
    /\ UNCHANGED <<b_pc, b_ret, turn, l_pc, l_i, l_buf, l_start, l_end,
                   total_cycles, c_log, start_mark, end_mark, f_early,
                   net_vars, disk_vars>>

\* line 139: thread_follower returns; the thread's exit is visible to
\* pthread_join only after the core's earlier stores are
FollowerReturn ==
    /\ f_pc = "return"
    /\ f_buf = <<>>
    /\ f_pc' = "done"
    /\ UNCHANGED <<b_pc, b_ret, turn, l_pc, l_i, l_buf, l_start, l_end,
                   total_cycles, f_i, f_buf, c_log, start_mark, end_mark,
                   f_early, net_vars, disk_vars>>

\* the oldest store of the leader's core reaches memory
DrainLeader ==
    /\ l_buf # <<>>
    /\ turn' = Head(l_buf).val
    /\ c_log' = Append(c_log, [by |-> Head(l_buf).by, val |-> Head(l_buf).val,
                               over |-> turn])
    /\ l_buf' = Tail(l_buf)
    /\ UNCHANGED <<b_pc, b_ret, l_pc, l_i, l_start, l_end, total_cycles, f_pc,
                   f_i, f_buf, start_mark, end_mark, f_early,
                   net_vars, disk_vars>>

\* the oldest store of the follower's core reaches memory
DrainFollower ==
    /\ f_buf # <<>>
    /\ turn' = Head(f_buf).val
    /\ c_log' = Append(c_log, [by |-> Head(f_buf).by, val |-> Head(f_buf).val,
                               over |-> turn])
    /\ f_buf' = Tail(f_buf)
    /\ UNCHANGED <<b_pc, b_ret, l_pc, l_i, l_buf, l_start, l_end, total_cycles,
                   f_pc, f_i, start_mark, end_mark, f_early,
                   net_vars, disk_vars>>

Leader == LeaderSync \/ LeaderStart \/ LeaderSignal \/ LeaderWait \/ LeaderEnd

Follower == FollowerWait \/ FollowerSignal \/ FollowerReturn

C2CNext ==
    \/ AllocOk
    \/ AllocFail
    \/ CreateFollower
    \/ CreateLeader
    \/ JoinLeader
    \/ JoinFollower
    \/ LeaderSync
    \/ LeaderStart
    \/ LeaderSignal
    \/ LeaderWait
    \/ LeaderEnd
    \/ FollowerWait
    \/ FollowerSignal
    \/ FollowerReturn
    \/ DrainLeader
    \/ DrainFollower

C2CSpec == C2CInit /\ [][C2CNext]_vars

\* both threads and the main thread keep being scheduled, and a store
\* buffer does not hold a store forever
FairC2CSpec ==
    /\ C2CInit
    /\ [][C2CNext]_vars
    /\ WF_vars(Leader)
    /\ WF_vars(Follower)
    /\ WF_vars(DrainLeader)
    /\ WF_vars(DrainFollower)
    /\ WF_vars(AllocOk \/ AllocFail \/ CreateFollower \/ CreateLeader
                 \/ JoinLeader \/ JoinFollower)

\* the stores of the two loops, in the order they reached memory
Signals == SelectSeq(c_log, LAMBDA e : e.by # "sync")

\* the stores that reached memory while the leader's clock was running
Timed == SubSeq(c_log, start_mark + 1, end_mark)

\* number of stores of thread who in a part of the log
CountBy(log, who) == Len(SelectSeq(log, LAMBDA e : e.by = who))

----------------------------------------------------------------------------
(***************************************************************************)
(* disk_bench (src/disk_bench/disk_bench.c): main (lines 388-504) runs one *)
(* of the four tests and then print_stats (lines 99-175).                  *)
(*                                                                         *)
(* The options -m, -s and -d are drawn from small sets or left at their    *)
(* defaults, -b keeps its default, -o is not                               *)
(* given.  A test loops while get_time_ns() < end_time; how many           *)
(* operations fit before the time is up is left open, except that with     *)
(* -d 0 the loop body cannot run.  add_latency's array never reaches its    *)
(* capacity of MAX_LATENCIES here, so it is an append.  duration_sec, the  *)
(* throughput and the IOPS are doubles that print_stats only prints; they  *)
(* are not modelled.                                                       *)
(*                                                                         *)
(* Percentiles are doubles in the code (50.0, 95.0, 99.0, 99.9); they are  *)
(* held here in tenths of a percent, and (size_t)((p / 100.0) * count) is  *)
(* the integer quotient (p10 * count) / 1000, which the double expression  *)
(* equals for the four percentiles and every count up to 2000000.          *)
(*                                                                         *)
(* An operation with undefined behaviour is recorded in faults; its        *)
(* outcome is any of: the signal the hardware raises, or an arbitrary      *)
(* value.  So is the read of st.st_size that a failed fstat left           *)
(* uninitialised.                                                          *)
(***************************************************************************)

\* most operations a test records
MaxOps == 3
\* latencies of one operation are drawn from 1..MaxLat, nanoseconds
MaxLat == 3
\* largest -s value, MB
MaxSizeMB == 1
\* largest test file on disk, in blocks
MaxBlocks == 2

\* #define DEFAULT_BLOCK_SIZE 4096
DEFAULT_BLOCK_SIZE == 4096
\* config.file_size = atol(optarg) * 1024 * 1024
MB_BYTES == 1048576

\* get_percentile's percentile argument, in tenths of a percent
P50 == 500
P95 == 950
P99 == 990
P999 == 999
\* percentile / 100.0, with the percentile in tenths of a percent
PER_MILLE == 1000

Lats == 1..MaxLat
Modes == {"seq-read", "seq-write", "rand-read", "rand-write"}
RandModes == {"rand-read", "rand-write"}
\* sizes of the file found on disk: whole blocks, and one byte short of a block
DiskSizes == {k * DEFAULT_BLOCK_SIZE : k \in 0..MaxBlocks} \cup {DEFAULT_BLOCK_SIZE - 1}
\* what a read outside the recorded latencies may return
Garbage == 0..MaxLat

\* qsort is left out: the array stays as recorded
QsortNone(s) == s

\* qsort(stats->latencies, stats->count, sizeof(unsigned long), compare_ulong)
Qsort(s) == SortSeq(s, LAMBDA a, b : a < b)

\* the index rounded up instead of truncated
GetPercentileRoundUp(sorted, count, percentile) ==
    IF count = 0 THEN 0
    ELSE LET index == (percentile * count + PER_MILLE - 1) \div PER_MILLE
         IN  sorted[(IF index >= count THEN count - 1 ELSE index) + 1]

\* get_percentile (lines 78-83); sorted[k + 1] is the code's sorted[k]
GetPercentile(sorted, count, percentile) ==
    IF count = 0 THEN 0
    ELSE LET index == (percentile * count) \div PER_MILLE
         IN  sorted[(IF index >= count THEN count - 1 ELSE index) + 1]

\* lines 114-117: the sum of the first count latencies
RECURSIVE LatSum(_, _)
LatSum(s, count) == IF count = 0 THEN 0 ELSE s[count] + LatSum(s, count - 1)

\* the blocks the random tests choose from: st.st_size / block_size in
\* test_rand_read (line 279), config->file_size / block_size in
\* test_rand_write (line 333); stat_size is what st.st_size holds
NumBlocks(mode, cfg_size, stat_size, block_size) ==
    (IF mode = "rand-read" THEN stat_size ELSE cfg_size) \div block_size

\* what st.st_size can hold after test_rand_read's fstat (line 277), whose
\* result is not tested: the file's size when fstat succeeds; when it fails
\* st is uninitialised and st_size is any value, among them 0 and sizes
\* beyond the end of the file
StatSizes(disk_size, fstat_ok) ==
    IF fstat_ok THEN {disk_size}
    ELSE {k * DEFAULT_BLOCK_SIZE : k \in 0..(MaxBlocks + 1)}

\* #define DEFAULT_FILE_SIZE_MB 1024
DEFAULT_FILE_SIZE_MB == 1024
\* #define DEFAULT_DURATION_SEC 30
DEFAULT_DURATION_SEC == 30

\* main's initialiser of config (lines 389-398)
DefaultConfig ==
    [mode |-> "seq-read", file_size |-> DEFAULT_FILE_SIZE_MB * MB_BYTES,
     block_size |-> DEFAULT_BLOCK_SIZE, duration_sec |-> DEFAULT_DURATION_SEC]

\* what the options can leave in config: -m, -s and -d given or not
Configs ==
    [mode : Modes,
     file_size : {s * MB_BYTES : s \in 0..MaxSizeMB}
                    \cup {DEFAULT_FILE_SIZE_MB * MB_BYTES},
     block_size : {DEFAULT_BLOCK_SIZE},
     duration_sec : (0..MaxDuration) \cup {DEFAULT_DURATION_SEC}]

\* main is entered: config holds its defaults, the test file has some size
DiskInit ==
    /\ pc = "none"
    /\ exit_status = -1
    /\ out = <<>>
    /\ err = <<>>
    /\ ReceiverIdle
    /\ ClientIdle
    /\ C2CIdle
    /\ d_pc = "args"
    /\ d_status = "none"
    /\ config = DefaultConfig
    /\ st_size \in DiskSizes
    /\ file_pos = 0
    /\ stats = [latencies |-> <<>>, count |-> 0, total_bytes |-> 0,
                total_ops |-> 0]
    /\ num_blocks = 0
    /\ report = NoReport
    /\ faults = {}

\* lines 400-478: the options are parsed, -f is given, stats is allocated
\* and the run's parameters are printed
MainSetup ==
    /\ d_pc = "args"
    /\ config' \in Configs
    /\ d_pc' = "main"
    /\ UNCHANGED <<d_status, st_size, file_pos, stats, num_blocks, report,
                   faults, net_vars, c2c_vars>>

\* main ends before any test: -h prints the usage and exits with 0; an
\* unknown option, an invalid -m, a missing -f or a failed malloc exit with
\* 1.  The options parsed before that have set their fields of config.
MainExit ==
    /\ d_pc = "args"
    /\ config' \in Configs \cup {DefaultConfig}
    /\ \E why \in {"help", "bad_option", "bad_mode", "no_file", "malloc"} :
         d_status' = IF why = "help" THEN "exit0" ELSE "exit1"
    /\ d_pc' = "exited"
    /\ UNCHANGED <<st_size, file_pos, stats, num_blocks, report, faults,
                   net_vars, c2c_vars>>

\* the size of the file once the test has opened it: test_seq_write opens
\* with O_TRUNC, test_rand_write calls ftruncate(fd, config->file_size)
SizeAfterOpen(mode, cfg_size, disk_size) ==
    IF mode = "seq-write" THEN 0
    ELSE IF mode = "rand-write" THEN cfg_size
    ELSE disk_size

\* the test opens the file and allocates its buffer; the random tests
\* compute num_blocks, test_rand_read from the st.st_size that fstat left,
\* read uninitialised when fstat failed
TestSetup ==
    /\ d_pc = "main"
    /\ st_size' = SizeAfterOpen(config.mode, config.file_size, st_size)
    /\ \E fstat_ok \in BOOLEAN :
         /\ ~fstat_ok => config.mode = "rand-read"
         /\ faults' = IF fstat_ok THEN faults
                       ELSE faults \cup {"uninitialised_stat"}
         /\ \E stat_size \in StatSizes(st_size, fstat_ok) :
              num_blocks' = IF config.mode \in RandModes
                              THEN NumBlocks(config.mode, config.file_size,
                                             stat_size, config.block_size)
                              ELSE num_blocks
    /\ file_pos' = 0
    /\ d_pc' = "loop"
    /\ UNCHANGED <<d_status, config, stats, report, net_vars, c2c_vars>>

\* open, ftruncate or posix_memalign fails: perror and exit(1).  When open
\* fails the file is as it was; when ftruncate fails test_seq_write's
\* O_TRUNC has not applied (only test_rand_write calls it); when
\* posix_memalign fails the file has the size the open left
TestSetupFail ==
    /\ d_pc = "main"
    /\ \E at \in {"open", "ftruncate", "posix_memalign"} :
         /\ at = "ftruncate" => config.mode = "rand-write"
         /\ st_size' = IF at = "posix_memalign"
                         THEN SizeAfterOpen(config.mode, config.file_size, st_size)
                         ELSE st_size
    /\ d_status' = "exit1"
    /\ d_pc' = "exited"
    /\ UNCHANGED <<config, file_pos, stats, num_blocks, report, faults,
                   net_vars, c2c_vars>>

\* add_latency, then total_bytes += n and total_ops++
Recorded(st, latency_ns, n) ==
    [latencies |-> Append(st.latencies, latency_ns),
     count |-> st.count + 1,
     total_bytes |-> st.total_bytes + n,
     total_ops |-> st.total_ops + 1]

\* what read(fd, buffer, block_size) returns at offset pos of a file of
\* size bytes, when it does not fail
ReadAt(size, pos, block_size) ==
    IF pos >= size THEN 0
    ELSE IF size - pos < block_size THEN size - pos ELSE block_size

\* what write(fd, buffer, block_size) can return: -1, a short count, or
\* block_size
WriteCounts(block_size) == {-1, block_size - 1, block_size}

\* one read of test_seq_read (lines 197-213) before the time is up: a read
\* that fails or returns 0 leaves the inner loop and the outer loop rewinds
\* the file; anything else is recorded and moves the offset
SeqRead ==
    /\ d_pc = "loop"
    /\ config.mode = "seq-read"
    /\ config.duration_sec > 0
    /\ stats.count < MaxOps
    /\ \E latency_ns \in Lats,
          n \in {-1, ReadAt(st_size, file_pos, config.block_size)} :
         IF n <= 0
           THEN /\ file_pos' = 0
                /\ UNCHANGED stats
           ELSE /\ file_pos' = file_pos + n
                /\ stats' = Recorded(stats, latency_ns, n)
    /\ UNCHANGED <<d_pc, d_status, config, st_size, num_blocks, report, faults,
                   net_vars, c2c_vars>>

\* one write of test_seq_write (lines 243-256) before the time is up: a
\* failed write ends the loop, any other is recorded and extends the file
SeqWrite ==
    /\ d_pc = "loop"
    /\ config.mode = "seq-write"
    /\ config.duration_sec > 0
    /\ stats.count < MaxOps
    /\ \E latency_ns \in Lats, n \in WriteCounts(config.block_size) :
         IF n < 0
           THEN /\ d_pc' = "print"
                /\ UNCHANGED <<stats, file_pos, st_size>>
           ELSE /\ stats' = Recorded(stats, latency_ns, n)
                /\ file_pos' = file_pos + n
                /\ st_size' = IF file_pos + n > st_size THEN file_pos + n
                              ELSE st_size
                /\ UNCHANGED d_pc
    /\ UNCHANGED <<d_status, config, num_blocks, report, faults,
                   net_vars, c2c_vars>>

\* the offsets (rand() % num_blocks) * block_size can take; with num_blocks
\* 0 the remainder is undefined and a build that does not trap goes on with
\* some offset
Offsets(blocks, block_size) ==
    IF blocks = 0 THEN {0, block_size}
    ELSE {0, (blocks - 1) * block_size}

\* one operation of a random test (lines 292-307, 347-362) before the time
\* is up: the offset is (rand() % num_blocks) * block_size; with num_blocks
\* 0 the remainder is undefined, the process is killed by SIGFPE or goes on
\* with some offset.  pread and pwrite leave the file offset alone; a pwrite
\* past the end extends the file.
RandOp ==
    /\ d_pc = "loop"
    /\ config.mode \in RandModes
    /\ config.duration_sec > 0
    /\ stats.count < MaxOps
    /\ faults' = IF num_blocks = 0 THEN faults \cup {"modulo_zero"} ELSE faults
    /\ \/ /\ num_blocks = 0
          /\ d_status' = "SIGFPE"
          /\ d_pc' = "exited"
          /\ UNCHANGED <<stats, st_size>>
       \/ /\ UNCHANGED d_status
          /\ \E latency_ns \in Lats, offset \in Offsets(num_blocks, config.block_size) :
               \E n \in IF config.mode = "rand-read"
                          THEN {-1, ReadAt(st_size, offset, config.block_size)}
                          ELSE WriteCounts(config.block_size) :
                 IF n < 0
                   THEN /\ d_pc' = "print"
                        /\ UNCHANGED <<stats, st_size>>
                   ELSE /\ stats' = Recorded(stats, latency_ns, n)
                        /\ st_size' = IF config.mode = "rand-write"
                                           /\ offset + n > st_size
                                        THEN offset + n ELSE st_size
                        /\ UNCHANGED d_pc
    /\ UNCHANGED <<config, file_pos, num_blocks, report, net_vars, c2c_vars>>

\* get_time_ns() >= end_time: the test's loop ends and the test returns
TimeUp ==
    /\ d_pc = "loop"
    /\ d_pc' = "print"
    /\ UNCHANGED <<d_status, config, st_size, file_pos, stats, num_blocks,
                   report, faults, net_vars, c2c_vars>>

\* print_stats (lines 99-175) and main's return (lines 500-503).  With count = 0 the reads
\* of latencies[0] and latencies[count - 1] are outside the recorded
\* latencies and lat_sum / count divides by zero.
PrintStats ==
    /\ d_pc = "print"
    /\ LET count  == stats.count
           sorted == Qsort(stats.latencies)
           bad    == IF count = 0 THEN {"index_out_of_range", "divide_by_zero"}
                     ELSE {}
       IN  /\ stats' = [stats EXCEPT !.latencies = sorted]
           /\ faults' = faults \cup bad
           /\ \E g0 \in Garbage, g1 \in Garbage, how \in {"value", "SIGSEGV", "SIGFPE"} :
                /\ count > 0 => (g0 = 0 /\ g1 = 0 /\ how = "value")
                /\ report' =
                     [lat_min  |-> IF count = 0 THEN g0 ELSE sorted[1],
                      lat_max  |-> IF how = "SIGSEGV" THEN 0
                                   ELSE IF count = 0 THEN g1 ELSE sorted[count],
                      lat_p50  |-> IF how = "SIGSEGV" THEN 0
                                   ELSE GetPercentile(sorted, count, P50),
                      lat_p95  |-> IF how = "SIGSEGV" THEN 0
                                   ELSE GetPercentile(sorted, count, P95),
                      lat_p99  |-> IF how = "SIGSEGV" THEN 0
                                   ELSE GetPercentile(sorted, count, P99),
                      lat_p999 |-> IF how = "SIGSEGV" THEN 0
                                   ELSE GetPercentile(sorted, count, P999),
                      lat_avg  |-> IF count = 0 THEN 0
                                   ELSE LatSum(sorted, count) \div count,
                      stage    |-> IF how = "value" THEN "printed" ELSE how]
                /\ d_status' = IF how = "value" THEN "exit0" ELSE how
    /\ d_pc' = "exited"
    /\ UNCHANGED <<config, st_size, file_pos, num_blocks, net_vars, c2c_vars>>

DiskNext ==
    \/ MainSetup
    \/ MainExit
    \/ TestSetup
    \/ TestSetupFail
    \/ SeqRead
    \/ SeqWrite
    \/ RandOp
    \/ TimeUp
    \/ PrintStats

DiskSpec == DiskInit /\ [][DiskNext]_vars

\* the index get_percentile is to use: the integer part of p / 100 * count,
\* at most count - 1
FloorIndex(percentile, count) ==
    LET f == CHOOSE i \in 0..count :
                 /\ i * PER_MILLE <= percentile * count
                 /\ percentile * count < (i + 1) * PER_MILLE
    IN  IF f < count - 1 THEN f ELSE count - 1

\* print_stats got as far as the percentiles
Percentiled == report.stage \in {"printed", "SIGFPE"}

----------------------------------------------------------------------------
(* C31 *)

\* the sequence numbers of 1..highest processed that were never processed
Missing == {s \in 1..g_high : s \notin g_seen}

\* C31 as stated: whenever every processed datagram carried a distinct
\* sequence number, in whatever order they arrived, the loss accumulated over
\* the session is at most the number of sequence numbers in 1..highest
\* received that were not received at all
C31_LossNeverOverReported ==
    ~g_dup => LostTotal <= Cardinality(Missing)

\* C31, amended: whenever the processed datagrams arrived with strictly
\* increasing sequence numbers (no reordering, no duplicate), the loss
\* accumulated over the session is at most the number of sequence numbers in
\* 1..highest received that were not received at all
C31_RisingLossBounded ==
    (g_rising /\ nrecv > 0) => LostTotal <= Cardinality(Missing)

\* datagrams in rising order that skip one number: the loss is counted, and
\* it is the one sequence number missing
C31_Witness ==
    /\ g_rising
    /\ nrecv >= 2
    /\ LostTotal = 1
    /\ Cardinality(Missing) = 1

----------------------------------------------------------------------------
(* C32 *)

\* C32: under every interleaving of thread_leader and thread_follower the
\* writes to turn strictly alternate: the leader's store of 1 reaches memory
\* only when turn is 0 and the follower's store of 0 only when turn is 1, the
\* leader's initial "turn = 0" replaces a 0 before any signal, so no signal
\* is lost or overwritten; and when the leader has read its end time its
\* timed loop holds exactly ITERATIONS stores of each thread, that is
\* ITERATIONS complete round trips
C32_PingPongAlternates ==
    /\ \A k \in 1..Len(c_log) :
         CASE c_log[k].by = "leader"   -> c_log[k].val = 1 /\ c_log[k].over = 0
           [] c_log[k].by = "follower" -> c_log[k].val = 0 /\ c_log[k].over = 1
           [] OTHER                    -> c_log[k].over = 0 /\ k = 1
    /\ \A k \in 1..Len(Signals) :
         Signals[k].by = IF k % 2 = 1 THEN "leader" ELSE "follower"
    /\ l_pc = "done" =>
         /\ CountBy(Timed, "leader") = ITERATIONS
         /\ CountBy(Timed, "follower") = ITERATIONS
         /\ Len(Signals) = 2 * ITERATIONS

\* the leader has finished its timed loop after ITERATIONS round trips
C32_Witness ==
    /\ l_pc = "done"
    /\ CountBy(Timed, "follower") = ITERATIONS
    /\ ITERATIONS > 1

----------------------------------------------------------------------------
(* C33 *)

\* C33: with both threads, the main thread and the store buffers weakly
\* fair, once the shared line is allocated run_benchmark eventually returns
\* with thread_leader and thread_follower both finished, whatever the
\* interleaving (the follower polling before the leader's "turn = 0"
\* included)
C33_BenchmarkTerminates ==
    (b_pc = "create_follower") ~>
        (b_pc = "returned" /\ l_pc = "done" /\ f_pc = "done"
           /\ l_i = ITERATIONS /\ f_i = ITERATIONS)

\* run_benchmark has returned after a run in which the follower polled turn
\* before the leader's initial write
C33_Witness ==
    /\ b_pc = "returned"
    /\ b_ret # ALLOC_FAILED
    /\ f_early
    /\ l_i = ITERATIONS
    /\ f_i = ITERATIONS

----------------------------------------------------------------------------
(* C34 *)

\* C34: whatever the outcome of the run, print_stats indexes the latency
\* array only inside [0, count) and never divides by zero, a test that
\* recorded no operation included, and the random tests never take
\* rand() modulo zero blocks
C34_ReportingSafe ==
    faults \cap {"index_out_of_range", "divide_by_zero", "modulo_zero"} = {}

----------------------------------------------------------------------------
(* C35 *)

\* C35: once print_stats has computed the percentiles, with at least one
\* recorded latency each of p50, p95, p99 and p99.9 is the element of the
\* sorted array at index min(floor(p / 100 * count), count - 1), and
\* min <= p50 <= p95 <= p99 <= p99.9 <= max; with no recorded latency each
\* of them is 0
C35_PercentileIndex ==
    Percentiled =>
      LET count == stats.count
          at(p) == stats.latencies[FloorIndex(p, count) + 1]
      IN  IF count = 0
            THEN /\ report.lat_p50 = 0
                 /\ report.lat_p95 = 0
                 /\ report.lat_p99 = 0
                 /\ report.lat_p999 = 0
            ELSE /\ \A i \in 1..(count - 1) :
                       stats.latencies[i] <= stats.latencies[i + 1]
                 /\ report.lat_p50 = at(P50)
                 /\ report.lat_p95 = at(P95)
                 /\ report.lat_p99 = at(P99)
                 /\ report.lat_p999 = at(P999)
                 /\ report.lat_min <= report.lat_p50
                 /\ report.lat_p50 <= report.lat_p95
                 /\ report.lat_p95 <= report.lat_p99
                 /\ report.lat_p99 <= report.lat_p999
                 /\ report.lat_p999 <= report.lat_max

\* a report over three latencies recorded out of order, whose minimum,
\* median and 95th percentile differ
C35_Witness ==
    /\ report.stage = "printed"
    /\ stats.count >= 3
    /\ report.lat_min < report.lat_p50
    /\ report.lat_p50 < report.lat_p95
    /\ report.lat_p999 = report.lat_max

============================================================================
